---- MODULE Spec2Model ----
(***************************************************************************)
(* Model of the ESP UART network interface (lib/WUI/espif.cpp).            *)
(*                                                                         *)
(* Spec, SpecWrongFw, SpecScanModes, SpecTick, SpecIntron, SpecLatch,      *)
(* SpecOutput                                                              *)
(*          interleave whole handlers of the bridge (operating mode, link, *)
(*          latches, scan session, intron) called from the polling task    *)
(*          and from caller tasks; they differ in the inputs they draw and *)
(*          in the observations they record.                               *)
(* SpecTx   runs the tasks inside espif_tx_raw / espif_tx_buffer statement *)
(*          by statement, together with the DMA-complete interrupt.        *)
(* SpecApInfo runs the loop of espif::scan::get_ap_info statement by       *)
(*          statement, together with the handlers of the scan replies.     *)
(* SpecRx   feeds byte streams through the receive DMA ring buffer and     *)
(*          espif_input_once into the receive parser.                      *)
(* SpecReset runs espif_reset next to the receive DMA, the polls and the   *)
(*          packets they dispatch.                                         *)
(* SpecJoin runs espif_join_ap statement by statement next to the tasks    *)
(*          inside espif_tx_raw.                                           *)
(***************************************************************************)

EXTENDS Integers, Sequences, FiniteSets, TLC

VARIABLES
    esp_operating_mode,   \* std::atomic<ESPIFOperatingMode>
    associated,           \* std::atomic<bool> associated
    init_countdown,       \* std::atomic<uint8_t> init_countdown
    seen_intron,          \* std::atomic<bool> seen_intron
    seen_rx_packet,       \* std::atomic<bool> seen_rx_packet
    esp_detected,         \* std::atomic<bool> esp_detected
    esp_was_ok,           \* std::atomic<bool> esp_was_ok
    scan,                 \* ScanData: is_running, prescan_op_mode, ap_count, ap_index
    ap_info_queue,        \* freertos::Queue<APInfo, 1>
    tx_intron,            \* tx_message.intron
    active_esp_netif,     \* the netif bound by espif_init (bound = FALSE: nullptr), its
                          \* hwaddr and the link flag the IP stack was last notified of
    poll_active,          \* the polling task is inside espif_input_once
    tx_task,              \* per sending task: where it is inside espif_tx_raw and what it sends
    uart_write_mutex,     \* freertos::Mutex uart_write_mutex: the task holding it
    tx_semaphore,         \* freertos::BinarySemaphore tx_semaphore: its count
    tx_semaphore_active,  \* std::atomic<BinarySemaphore *>: TRUE = &tx_semaphore, FALSE = nullptr
    tx_header,            \* tx_message.header and .data_checksum: the message they describe
    uart_dma,             \* the chunk HAL_UART_Transmit_DMA accepted and has not completed
    wire,                 \* the chunks transmitted, in order
    tx_released,          \* observation: who released the claim of the current espif_tx_buffer
    tx_assert_failed,     \* observation: the asserts of espif_tx_buffer that failed
    ap_info_task,         \* the task inside espif::scan::get_ap_info: its locals
    join_task,            \* the task inside espif_join_ap: where it is, new_intron, err
    get_ap_info_mutex,    \* freertos::Mutex ScanData::get_ap_info_mutex: its holder, the
                          \* tasks blocked in lock(), the tasks that made their one call
    handler_task,         \* handlers taken statement by statement: where the polling
                          \* task is inside process_packet / process_esp_device_info and
                          \* where a caller task is inside espif::scan::start, with
                          \* their locals
    uart_rx,              \* the ESP and the receive DMA: stream, bytes sent, write position
    dma_buffer_rx,        \* uint8_t dma_buffer_rx[RX_BUFFER_LEN]
    old_dma_pos,          \* static size_t old_dma_pos
    uart_error_occured,   \* std::atomic<bool> uart_error_occured
    uart_recovering,      \* espif_input_once is inside its recovery branch
    packet_task,          \* the packet handlers statement by statement: where the poll
                          \* and espif_reset are, packet_buff_head/_curr, the pbuf chains
    uart_rx_parser,       \* static UartRxParser uart_rx_parser
    rx_fed,               \* observation: the bytes passed to uart_input so far
    rx_chunks,            \* observation: the chunks the last espif_input_once fed
    last_op,              \* observation: the handler that ran last and what it returned / sent
    obs,                  \* observation: history facts the properties speak about
    watch                 \* which observations a specification records (never changes)

vars == <<esp_operating_mode, associated, init_countdown, seen_intron, seen_rx_packet,
          esp_detected, esp_was_ok, scan, ap_info_queue, tx_intron, active_esp_netif,
          poll_active, tx_task, uart_write_mutex, tx_semaphore, tx_semaphore_active,
          tx_header, uart_dma, wire, tx_released, tx_assert_failed, ap_info_task,
          join_task, get_ap_info_mutex, handler_task, uart_rx, dma_buffer_rx, old_dma_pos, uart_error_occured,
          uart_recovering, packet_task, uart_rx_parser,
          rx_fed, rx_chunks, last_op, obs, watch>>

bridgevars == <<esp_operating_mode, associated, init_countdown, seen_intron, seen_rx_packet,
                esp_detected, esp_was_ok, scan, ap_info_queue, tx_intron, active_esp_netif,
                poll_active, last_op, obs, watch>>

txvars == <<tx_task, uart_write_mutex, tx_semaphore, tx_semaphore_active, tx_header,
            uart_dma, wire, tx_released, tx_assert_failed>>

scanvars == <<ap_info_task, join_task, get_ap_info_mutex, handler_task>>

rxvars == <<uart_rx, dma_buffer_rx, old_dma_pos, uart_error_occured, uart_recovering,
            packet_task, uart_rx_parser,
            rx_fed, rx_chunks>>

-----------------------------------------------------------------------------
(* Bounds of the model *)

\* rand_u() delivers one of 1 + MaxTail four-byte tails
MaxTail == 0
\* an outgoing packet is a pbuf chain of 1..MaxSeg segments
MaxSeg == 2
\* SCAN_AP_COUNT reports 0..MaxApCount access points
MaxApCount == 1
\* espif_tick runs at most MaxTicks times
MaxTicks == 3
\* sending tasks start new messages while fewer than MaxWire chunks were transmitted
MaxWire == 1
\* a pbuf of a received packet holds at most MaxPbufLen bytes
MaxPbufLen == 2
\* the ring buffer of the receive DMA has RX_BUFFER_LEN bytes
RX_BUFFER_LEN == 4

-----------------------------------------------------------------------------
(* Program constants *)

ESPIF_UNINITIALIZED_MODE == "ESPIF_UNINITIALIZED_MODE"
ESPIF_WAIT_INIT == "ESPIF_WAIT_INIT"
ESPIF_NEED_AP == "ESPIF_NEED_AP"
ESPIF_CONNECTING_AP == "ESPIF_CONNECTING_AP"
ESPIF_RUNNING_MODE == "ESPIF_RUNNING_MODE"
ESPIF_SCANNING_MODE == "ESPIF_SCANNING_MODE"
ESPIF_WRONG_FW == "ESPIF_WRONG_FW"
ESPIF_FLASHING_ERROR_NOT_CONNECTED == "ESPIF_FLASHING_ERROR_NOT_CONNECTED"
ESPIF_FLASHING_ERROR_OTHER == "ESPIF_FLASHING_ERROR_OTHER"

ESPIFOperatingMode ==
    { ESPIF_UNINITIALIZED_MODE, ESPIF_WAIT_INIT, ESPIF_NEED_AP, ESPIF_CONNECTING_AP,
      ESPIF_RUNNING_MODE, ESPIF_SCANNING_MODE, ESPIF_WRONG_FW,
      ESPIF_FLASHING_ERROR_NOT_CONNECTED, ESPIF_FLASHING_ERROR_OTHER }

INIT_COUNTDOWN == 20

\* int tries = 4 of espif::scan::get_ap_info
AP_INFO_TRIES == 4

\* esp::REQUIRED_PROTOCOL_VERSION (esp_protocol/messages.hpp)
REQUIRED_PROTOCOL_VERSION == 14

\* esp::DEFAULT_INTRON: two marker bytes, then the tail reset_intron() writes
INTRON_MARKER == <<85, 78>>
DEFAULT_INTRON == INTRON_MARKER \o <<0, 1, 2, 3>>

ERR_OK == "ERR_OK"
ERR_IF == "ERR_IF"
ERR_MEM == "ERR_MEM"
HAL_ERROR == "HAL_ERROR"

\* esp::MessageType
PACKET_V2 == "PACKET_V2"
CLIENTCONFIG_V2 == "CLIENTCONFIG_V2"
SCAN_START == "SCAN_START"
SCAN_STOP == "SCAN_STOP"
SCAN_AP_GET == "SCAN_AP_GET"

Versions == { REQUIRED_PROTOCOL_VERSION, REQUIRED_PROTOCOL_VERSION + 1 }
MacAddrs == { "mac_a" }
FlashResult == { "success", "not_connected", "failure" }
RandTail(k) == <<k + 1, k + 2, k + 3, k + 4>>
RandTails == { RandTail(k) : k \in 0..MaxTail }

-----------------------------------------------------------------------------
(* Pure functions of the source *)

\* is_running that counts a scan as an active mode
is_running_or_scanning(mode) ==
    mode \in { ESPIF_WAIT_INIT, ESPIF_NEED_AP, ESPIF_RUNNING_MODE, ESPIF_CONNECTING_AP,
               ESPIF_SCANNING_MODE }

is_running(mode) ==
    mode \in { ESPIF_WAIT_INIT, ESPIF_NEED_AP, ESPIF_RUNNING_MODE, ESPIF_CONNECTING_AP }

\* can_recieve_data that lets every mode through
can_recieve_data_always(mode) == mode \in ESPIFOperatingMode

can_recieve_data(mode) ==
    mode \in { ESPIF_FLASHING_ERROR_NOT_CONNECTED, ESPIF_WAIT_INIT, ESPIF_NEED_AP,
               ESPIF_RUNNING_MODE, ESPIF_CONNECTING_AP, ESPIF_SCANNING_MODE }

espif_link == associated

\* esp_fw_state that does not look at the ever-ok latch
esp_fw_state_of_nolatch(mode, detected, seen_ok, countdown) ==
    CASE mode = ESPIF_UNINITIALIZED_MODE -> "Unknown"
      [] mode = ESPIF_FLASHING_ERROR_NOT_CONNECTED -> "FlashingErrorNotConnected"
      [] mode = ESPIF_FLASHING_ERROR_OTHER -> "FlashingErrorOther"
      [] mode = ESPIF_WAIT_INIT ->
            IF detected
            THEN (IF countdown > 0 THEN "Unknown" ELSE "NoFirmware")
            ELSE "NoEsp"
      [] mode \in { ESPIF_NEED_AP, ESPIF_CONNECTING_AP, ESPIF_RUNNING_MODE } -> "Ok"
      [] mode = ESPIF_WRONG_FW -> "WrongVersion"
      [] mode = ESPIF_SCANNING_MODE -> "Scanning"

esp_fw_state_of(mode, detected, seen_ok, countdown) ==
    CASE mode = ESPIF_UNINITIALIZED_MODE -> IF seen_ok THEN "Ok" ELSE "Unknown"
      [] mode = ESPIF_FLASHING_ERROR_NOT_CONNECTED -> "FlashingErrorNotConnected"
      [] mode = ESPIF_FLASHING_ERROR_OTHER -> "FlashingErrorOther"
      [] mode = ESPIF_WAIT_INIT ->
            IF seen_ok THEN "Ok"
            ELSE IF detected
                 THEN (IF countdown > 0 THEN "Unknown" ELSE "NoFirmware")
                 ELSE "NoEsp"
      [] mode \in { ESPIF_NEED_AP, ESPIF_CONNECTING_AP, ESPIF_RUNNING_MODE } -> "Ok"
      [] mode = ESPIF_WRONG_FW -> "WrongVersion"
      [] mode = ESPIF_SCANNING_MODE -> "Scanning"

esp_fw_state ==
    esp_fw_state_of(esp_operating_mode, esp_detected, esp_was_ok, init_countdown)

\* esp_link_state that does not call espif_link()
esp_link_state_of_nolink(mode, link, seen) ==
    CASE mode \in { ESPIF_WAIT_INIT, ESPIF_WRONG_FW, ESPIF_UNINITIALIZED_MODE,
                    ESPIF_FLASHING_ERROR_NOT_CONNECTED,
                    ESPIF_FLASHING_ERROR_OTHER, ESPIF_SCANNING_MODE } -> "Init"
      [] mode \in { ESPIF_NEED_AP, ESPIF_CONNECTING_AP } -> "NoAp"
      [] mode = ESPIF_RUNNING_MODE -> IF seen THEN "Up" ELSE "Silent"

\* the switch of esp_link_state over the loaded mode, the link and seen_intron
esp_link_state_of(mode, link, seen) ==
    CASE mode \in { ESPIF_WAIT_INIT, ESPIF_WRONG_FW, ESPIF_UNINITIALIZED_MODE,
                    ESPIF_FLASHING_ERROR_NOT_CONNECTED,
                    ESPIF_FLASHING_ERROR_OTHER, ESPIF_SCANNING_MODE } -> "Init"
      [] mode \in { ESPIF_NEED_AP, ESPIF_CONNECTING_AP } -> "NoAp"
      [] mode = ESPIF_RUNNING_MODE ->
            IF link THEN (IF seen THEN "Up" ELSE "Silent") ELSE "NoAp"

esp_link_state == esp_link_state_of(esp_operating_mode, espif_link, seen_intron)

-----------------------------------------------------------------------------
(* Transmission, seen from a whole handler: espif_tx_raw puts 1 + nseg chunks *)
(* (the prelude, then every pbuf of the chain) on the UART; the transport     *)
(* accepts the first acc of them and rejects the next one.                    *)

TxOutcomes(nseg) == 0..(nseg + 1)

espif_tx_raw(type, byte, nseg, acc) ==
    [ type |-> type, byte |-> byte, intron |-> tx_intron, nseg |-> nseg, acc |-> acc,
      err |-> IF acc = nseg + 1 THEN ERR_OK ELSE HAL_ERROR ]

NoFrame == <<>>

Op(name, ret, sent, arg) == [ op |-> name, ret |-> ret, sent |-> sent, arg |-> arg ]

None == "none"
NoIntron == <<>>
NoArg == [ valid |-> TRUE, version |-> 0, intron |-> NoIntron, result |-> None,
           index |-> 0 ]

-----------------------------------------------------------------------------
(* Observations kept for the properties: they record what a handler did and  *)
(* never influence one. A specification records only the observations its    *)
(* properties read (watch), the others stay at their initial value.          *)

Quiet == Op("-", ERR_OK, NoFrame, NoArg)

NoObs == [ wire_intron |-> NoIntron, cfg_intron |-> NoIntron, rx_since_tick |-> FALSE,
           pkt_since_tick |-> FALSE, pkt_since_link_tick |-> FALSE,
           start_mode |-> None, clean |-> FALSE ]

RxOps == { "process_esp_device_info", "process_scan_ap_count", "process_scan_ap_info",
           "process_packet" }

\* the handler put at least the prelude of a frame on the wire
Sent(op) == op.sent # NoFrame /\ op.sent[1].acc >= 1

Accepted(op) == op.op \in { "espif_init", "espif_reset" } /\ op.ret = ERR_OK
Joined(op) == op.op = "espif_join_ap" /\ op.ret = ERR_OK
Started(op) == op.op = "scan_start" /\ op.ret = ERR_OK
PacketAccepted(op) == op.op = "process_packet" /\ op.ret = ERR_OK

Observe(op) ==
    [ \* the intron of the last frame sent since the intron was last committed
      wire_intron |->
         IF "wire" \notin watch.obs THEN NoIntron
         ELSE IF Accepted(op) \/ Joined(op) THEN NoIntron
         ELSE IF Sent(op) THEN op.sent[1].intron ELSE obs.wire_intron,
      \* the intron carried by the last successful CLIENTCONFIG frame
      cfg_intron |->
         IF "wire" \notin watch.obs THEN NoIntron
         ELSE IF Accepted(op) THEN NoIntron
         ELSE IF Joined(op) THEN op.arg.intron ELSE obs.cfg_intron,
      \* a checksum-valid message was dispatched since the last tick
      rx_since_tick |->
         IF "rx" \notin watch.obs THEN FALSE
         ELSE IF op.op = "espif_tick" THEN FALSE
         ELSE IF op.op \in RxOps /\ op.arg.valid THEN TRUE ELSE obs.rx_since_tick,
      \* netif->input accepted a packet since the last tick
      pkt_since_tick |->
         IF "pkt" \notin watch.obs THEN FALSE
         ELSE IF op.op = "espif_tick" THEN FALSE
         ELSE IF PacketAccepted(op) THEN TRUE ELSE obs.pkt_since_tick,
      \* netif->input accepted a packet since the last tick that found the link up
      pkt_since_link_tick |->
         IF "pkt" \notin watch.obs THEN FALSE
         ELSE IF op.op = "espif_tick" /\ associated THEN FALSE
         ELSE IF PacketAccepted(op) THEN TRUE ELSE obs.pkt_since_link_tick,
      \* the mode in which the last successful scan start was called
      start_mode |->
         IF "scan" \notin watch.obs THEN None
         ELSE IF Started(op) THEN esp_operating_mode ELSE obs.start_mode,
      \* the mode has not changed since that scan start returned
      clean |->
         IF "scan" \notin watch.obs THEN FALSE
         ELSE IF Started(op) THEN TRUE
         ELSE obs.clean /\ esp_operating_mode' = esp_operating_mode ]

\* last conjunct of every handler
Emit(op) ==
    /\ last_op' = IF op.op \in watch.ops THEN op ELSE Quiet
    /\ obs' = Observe(op)
    /\ watch' = watch
    /\ UNCHANGED <<txvars, scanvars, rxvars>>

\* last conjunct of a handler that changed the receive parser to p: the bytes
\* fed to the parser are counted from here on
EmitParser(op, p) ==
    /\ last_op' = IF op.op \in watch.ops THEN op ELSE Quiet
    /\ obs' = Observe(op)
    /\ watch' = watch
    /\ uart_rx_parser' = p
    /\ rx_fed' = <<>>
    /\ UNCHANGED <<txvars, scanvars, uart_rx, dma_buffer_rx, old_dma_pos,
                   uart_error_occured, uart_recovering, packet_task, rx_chunks>>

-----------------------------------------------------------------------------
(* The transmit channel, statement by statement *)

\* the tasks that call espif_tx_raw: the tcpip thread (low_level_output), the
\* polling task (espif_tick) and a caller of join_ap / scan
Senders == { "tcpip", "wui", "caller" }

NoTask == [ pc |-> "idle", nseg |-> 0, seg |-> 0, result |-> ERR_OK ]
NoHeader == [ owner |-> None, nseg |-> 0 ]
NoDma == <<>>

\* get_ap_info_mutex is free, no task waits for it
NoApLock == [ holder |-> None, waiting |-> {}, called |-> {} ]

\* nobody is inside get_ap_info
NoApInfoTask == [ pc |-> "idle", index |-> 0, tries |-> 0, last_error |-> ERR_OK,
                  requests |-> 0, attempts |-> <<>>, ret |-> ERR_OK ]

\* nobody is inside espif_join_ap
NoJoinTask == [ pc |-> "idle", new_intron |-> NoIntron, err |-> ERR_OK ]

InitTx ==
    /\ tx_task = [ s \in Senders |-> NoTask ]
    /\ uart_write_mutex = None
    /\ tx_semaphore = 0
    /\ tx_semaphore_active = FALSE
    /\ tx_header = NoHeader
    /\ uart_dma = NoDma
    /\ wire = <<>>
    /\ tx_released = <<>>
    /\ tx_assert_failed = {}

-----------------------------------------------------------------------------
(* The receive path: wire format, packet buffers, UartRxParser and the parser *)
(* base class esp::RxParserBase. A parser is a record p; every operator       *)
(* returns the parser it leaves.                                              *)

Min(a, b) == IF a < b THEN a ELSE b

\* esp::MessageType of a received header byte
RxTypeOf(code) ==
    CASE code = 0 -> "DEVICE_INFO_V2"
      [] code = 1 -> PACKET_V2
      [] code = 2 -> "SCAN_AP_CNT"
      [] code = 3 -> "SCAN_AP_INFO"
      [] OTHER -> "unknown"

\* the header after the intron: type, variable byte, big-endian u16 size
HEADER_LEN == 4
\* the trailing big-endian u32 checksum
CHECKSUM_LEN == 4

\* stand-in for the CRC: a running checksum that, like crc32_calc_ex, continues
\* from the value of the bytes before
CRC_MOD == 16777216

RECURSIVE crc32_calc_ex(_, _)
crc32_calc_ex(crc, data) ==
    IF data = <<>> THEN crc
    ELSE crc32_calc_ex((crc * 31 + Head(data) + 1) % CRC_MOD, Tail(data))

u16_be(v) == << v \div 256, v % 256 >>
u32_be(v) == << v \div CRC_MOD, (v \div 65536) % 256, (v \div 256) % 256, v % 256 >>

\* a message as the ESP puts it on the wire; good = FALSE spoils the checksum
Frame(code, byte, payload, good) ==
    LET body == DEFAULT_INTRON \o << code, byte >> \o u16_be(Len(payload)) \o payload
        crc == crc32_calc_ex(0, body)
    IN body \o u32_be(IF good THEN crc ELSE (crc + 1) % CRC_MOD)

\* nullptr as a chain, nullptr as the current pbuf, and what nullptr->next reads
NoChain == <<>>
NullPbuf == 0
GarbagePbuf == 0 - 1
\* a payload byte nobody wrote yet
Uninit == 0 - 1

\* pbuf_alloc_rx(size): nullptr, or a chain of pbufs of at most MaxPbufLen bytes
\* whose tot_len is size
pbuf_alloc_rx(size, alloc_ok) ==
    IF ~alloc_ok THEN NoChain
    ELSE IF size = 0 THEN << <<>> >>
    ELSE [ i \in 1..((size + MaxPbufLen - 1) \div MaxPbufLen) |->
             [ j \in 1..Min(MaxPbufLen, size - (i - 1) * MaxPbufLen) |-> Uninit ] ]

\* pbuf->next inside a chain
pbuf_next(chain, curr) == IF curr < Len(chain) THEN curr + 1 ELSE NullPbuf

\* what the environment decides: the start_packet call whose allocation fails,
\* the netif->input call that fails (0 = none), what reading nullptr->next
\* does in this build, and whether the build defines _DEBUG
Plans ==
    { [ alloc_fail |-> 0, input_fail |-> 0, null_next |-> "garbage", debug |-> FALSE ],
      [ alloc_fail |-> 1, input_fail |-> 0, null_next |-> "garbage", debug |-> FALSE ],
      [ alloc_fail |-> 0, input_fail |-> 1, null_next |-> "garbage", debug |-> FALSE ],
      [ alloc_fail |-> 0, input_fail |-> 0, null_next |-> "fault", debug |-> FALSE ] }

InitParser ==
    [ state |-> "Intron", intron |-> DEFAULT_INTRON, matched |-> 0, header |-> <<>>,
      type |-> "unknown", byte |-> 0, size |-> 0, read |-> 0, crc |-> 0,
      checksum |-> <<>>, scratch |-> <<>>,
      packet_buff_head |-> NoChain, packet_buff_curr |-> NullPbuf, packet_buff_read |-> 0,
      allocs |-> 0, inputs |-> 0, frees |-> 0, invalid |-> 0, dispatched |-> <<>>,
      halted |-> FALSE ]

\* UartRxParser::start_packet
start_packet(p, plan) ==
    LET head == pbuf_alloc_rx(p.size, p.allocs + 1 # plan.alloc_fail) IN
    [ p EXCEPT !.packet_buff_head = head,
               !.packet_buff_read = 0,
               !.packet_buff_curr = IF head # NoChain THEN 1 ELSE @,
               !.allocs = @ + 1 ]

\* UartRxParser::reset_packet
reset_packet(p) ==
    IF p.packet_buff_head # NoChain
    THEN [ p EXCEPT !.packet_buff_head = NoChain, !.packet_buff_curr = NullPbuf,
                    !.frees = @ + 1 ]
    ELSE p

\* the while loop of UartRxParser::update_packet
RECURSIVE update_packet_loop(_, _)
update_packet_loop(p, data) ==
    IF data = <<>> THEN p
    ELSE IF p.packet_buff_curr \notin 1..Len(p.packet_buff_head)
    THEN [ p EXCEPT !.halted = TRUE ]
    ELSE LET cur == p.packet_buff_head[p.packet_buff_curr]
             to_read == Min(Len(cur) - p.packet_buff_read, Len(data))
             read == p.packet_buff_read + to_read
             copied == [ j \in 1..Len(cur) |->
                           IF j > p.packet_buff_read /\ j <= read
                           THEN data[j - p.packet_buff_read] ELSE cur[j] ]
             full == read = Len(cur)
         IN update_packet_loop(
                [ p EXCEPT !.packet_buff_head[p.packet_buff_curr] = copied,
                           !.packet_buff_read = IF full THEN 0 ELSE read,
                           !.packet_buff_curr =
                               IF full THEN pbuf_next(p.packet_buff_head, @) ELSE @ ],
                SubSeq(data, to_read + 1, Len(data)))

\* an update_packet that starts every call at offset 0 of the current pbuf
update_packet_rewind(p, data) ==
    update_packet_loop([ p EXCEPT !.packet_buff_read = 0 ], data)

\* UartRxParser::update_packet
update_packet(p, data) == update_packet_loop(p, data)

\* UartRxParser::process_packet, the handler of a complete PACKET message
UartRxParser_process_packet(p, checksum_valid, plan) ==
    IF p.packet_buff_curr = NullPbuf /\ plan.null_next = "fault"
    THEN [ p EXCEPT !.halted = TRUE ]
    ELSE LET q == [ p EXCEPT !.packet_buff_curr =
                                 IF @ = NullPbuf THEN GarbagePbuf
                                 ELSE pbuf_next(p.packet_buff_head, @),
                             !.packet_buff_read = 0 ]
             input_ok == q.inputs + 1 # plan.input_fail
         IN IF ~checksum_valid THEN q
            ELSE [ q EXCEPT !.inputs = @ + 1,
                            !.dispatched = Append(@, [ type |-> p.type, byte |-> p.byte,
                                                       payload |-> p.packet_buff_head,
                                                       valid |-> TRUE,
                                                       accepted |-> input_ok ]),
                            !.packet_buff_head = IF input_ok THEN NoChain ELSE @ ]

\* the handlers of the other messages: process_esp_device_info,
\* process_scan_ap_count, process_scan_ap_info are called with the message
process_message(p, checksum_valid) ==
    [ p EXCEPT !.dispatched = Append(@, [ type |-> p.type, byte |-> p.byte,
                                          payload |-> << p.scratch >>,
                                          valid |-> checksum_valid,
                                          accepted |-> checksum_valid ]) ]

\* UartRxParser::process_invalid_message in a build that always stops in bsod
process_invalid_message_fatal(p, plan) ==
    [ p EXCEPT !.invalid = @ + 1, !.halted = TRUE ]

\* UartRxParser::process_invalid_message: logs, and in a _DEBUG build stops
\* the firmware in bsod
process_invalid_message(p, plan) ==
    [ p EXCEPT !.invalid = @ + 1, !.halted = plan.debug ]

\* RxParserBase: back to the search for the intron
resync(p) ==
    [ p EXCEPT !.state = "Intron", !.matched = 0, !.header = <<>>, !.checksum = <<>> ]

\* RxParserBase::reset: the search for the intron starts over and a packet under
\* reassembly is dropped
RxParserBase_reset(p) == resync(reset_packet(p))

\* RxParserBase: one byte while searching for the intron
intron_byte(p, b) ==
    IF b = p.intron[p.matched + 1]
    THEN IF p.matched + 1 = Len(p.intron)
         THEN [ p EXCEPT !.state = "Header", !.matched = 0, !.header = <<>>,
                         !.crc = crc32_calc_ex(0, p.intron) ]
         ELSE [ p EXCEPT !.matched = @ + 1 ]
    ELSE [ p EXCEPT !.matched = IF b = p.intron[1] THEN 1 ELSE 0 ]

\* RxParserBase: the header is complete
header_done(p, plan) ==
    LET q == [ p EXCEPT !.type = RxTypeOf(p.header[1]),
                        !.byte = p.header[2],
                        !.size = p.header[3] * 256 + p.header[4],
                        !.read = 0, !.scratch = <<>>, !.checksum = <<>> ]
        body == IF q.size = 0 THEN "Checksum" ELSE "Data"
    IN IF q.type = "unknown"
       THEN LET r == process_invalid_message(q, plan) IN
            IF r.halted THEN r ELSE resync(r)
       ELSE IF q.type = PACKET_V2
       THEN LET s == start_packet(q, plan) IN
            IF s.packet_buff_head = NoChain THEN resync(s)
            ELSE [ s EXCEPT !.state = body ]
       ELSE [ q EXCEPT !.state = body ]

\* RxParserBase: one byte of the header
header_byte(p, b, plan) ==
    LET q == [ p EXCEPT !.header = Append(@, b), !.crc = crc32_calc_ex(@, << b >>) ] IN
    IF Len(q.header) = HEADER_LEN THEN header_done(q, plan) ELSE q

\* RxParserBase: the payload bytes a chunk holds
data_span(p, span) ==
    LET q == [ p EXCEPT !.crc = crc32_calc_ex(@, span), !.read = @ + Len(span) ]
        r == IF q.type = PACKET_V2 THEN update_packet(q, span)
             ELSE [ q EXCEPT !.scratch = @ \o span ]
    IN IF r.read = r.size THEN [ r EXCEPT !.state = "Checksum" ] ELSE r

\* RxParserBase: the message is complete: its handler, then reset_packet
message_done(p, plan) ==
    LET checksum_valid == p.checksum = u32_be(p.crc)
        q == IF p.type = PACKET_V2 THEN UartRxParser_process_packet(p, checksum_valid, plan)
             ELSE process_message(p, checksum_valid)
    IN IF q.halted THEN q ELSE resync(reset_packet(q))

\* RxParserBase: one byte of the trailing checksum
checksum_byte(p, b, plan) ==
    LET q == [ p EXCEPT !.checksum = Append(@, b) ] IN
    IF Len(q.checksum) = CHECKSUM_LEN THEN message_done(q, plan) ELSE q

\* RxParserBase::process_data(span)
RECURSIVE process_data(_, _, _)
process_data(p, data, plan) ==
    IF data = <<>> \/ p.halted THEN p
    ELSE IF p.state = "Intron"
    THEN process_data(intron_byte(p, Head(data)), Tail(data), plan)
    ELSE IF p.state = "Header"
    THEN process_data(header_byte(p, Head(data), plan), Tail(data), plan)
    ELSE IF p.state = "Data"
    THEN LET n == Min(p.size - p.read, Len(data)) IN
         process_data(data_span(p, SubSeq(data, 1, n)), SubSeq(data, n + 1, Len(data)), plan)
    ELSE process_data(checksum_byte(p, Head(data), plan), Tail(data), plan)

\* uart_input(data, size, netif) as far as the parser goes
uart_input(p, data, intron, plan) ==
    process_data([ p EXCEPT !.intron = intron ], data, plan)

\* the byte sequences the ESP sends: a lead (nothing, noise, a broken intron, a
\* message with a bad checksum, a message of an unknown type, a packet over two
\* pbufs) followed by a message (packets of 0 and MaxPbufLen + 1 bytes with good
\* and bad checksums, a device info)
Payload(n) == [ i \in 1..n |-> i ]

Leads ==
    { <<>>, << 7 >>, SubSeq(DEFAULT_INTRON, 1, 3),
      Frame(2, 1, Payload(0), FALSE),
      Frame(9, 0, Payload(0), TRUE),
      Frame(1, 1, Payload(MaxPbufLen + 1), TRUE) }

Messages ==
    { Frame(1, 1, Payload(0), TRUE),
      Frame(1, 1, Payload(MaxPbufLen + 1), TRUE),
      Frame(1, 0, Payload(MaxPbufLen + 1), FALSE),
      Frame(0, REQUIRED_PROTOCOL_VERSION, Payload(1), TRUE) }

Streams == { a \o b : a \in Leads, b \in Messages }

\* the polling task is in no handler, the caller task in no call; wrong_fw:
\* process_esp_device_info has stored ESPIF_WRONG_FW
NoHandlerTask ==
    [ poll |-> [ pc |-> "idle", up |-> FALSE, input_ok |-> FALSE, changed |-> FALSE,
                 version |-> 0, wrong_fw |-> FALSE ],
      caller |-> [ pc |-> "idle", err |-> ERR_OK ] ]

\* no packet under reassembly, nobody inside a packet handler, no pbuf chain
\* allocated yet; ptr is the pointer a reset_packet in progress has read
NoPacketTask ==
    [ pc |-> [ poll |-> "intron", reset |-> "idle" ], ptr |-> [ poll |-> 0, reset |-> 0 ],
      packet_buff_head |-> 0, packet_buff_curr |-> 0, heap |-> <<>> ]

\* the receive side before the first byte; stream is what the ESP will send
InitRx(stream, plan) ==
    /\ uart_rx = [ stream |-> stream, plan |-> plan, sent |-> 0, pos |-> 0,
                   unpolled |-> 0, dma |-> TRUE ]
    /\ dma_buffer_rx = [ i \in 1..RX_BUFFER_LEN |-> 0 ]
    /\ old_dma_pos = 0
    /\ uart_error_occured = FALSE
    /\ uart_recovering = FALSE
    /\ packet_task = NoPacketTask
    /\ uart_rx_parser = InitParser
    /\ rx_fed = <<>>
    /\ rx_chunks = <<>>

-----------------------------------------------------------------------------
(* Initial state: the static initialisers of espif.cpp *)

\* all of them but the one of init_countdown
InitStaticsExceptCountdown ==
    /\ esp_operating_mode = ESPIF_UNINITIALIZED_MODE
    /\ associated = FALSE
    /\ seen_intron = FALSE
    /\ seen_rx_packet = FALSE
    /\ esp_detected = FALSE
    /\ esp_was_ok = FALSE
    /\ scan = [ is_running |-> FALSE, prescan_op_mode |-> ESPIF_UNINITIALIZED_MODE,
                ap_count |-> 0, ap_index |-> 0 ]
    /\ ap_info_queue = <<>>
    /\ tx_intron = DEFAULT_INTRON
    /\ active_esp_netif = [ bound |-> FALSE, hwaddr_len |-> 0, hwaddr |-> None,
                           link_up |-> FALSE ]
    /\ poll_active = FALSE
    /\ last_op = Quiet
    /\ obs = NoObs
    /\ InitTx
    /\ ap_info_task = NoApInfoTask
    /\ join_task = NoJoinTask
    /\ get_ap_info_mutex = NoApLock
    /\ handler_task = NoHandlerTask

InitStatics ==
    /\ init_countdown = INIT_COUNTDOWN
    /\ InitStaticsExceptCountdown

\* the state after construction when the ESP sends nothing
InitBridge ==
    /\ InitStatics
    /\ InitRx(<<>>, [ alloc_fail |-> 0, input_fail |-> 0, null_next |-> "garbage", debug |-> FALSE ])

-----------------------------------------------------------------------------
(* Helpers shared by the handlers *)

\* process_link_change that never takes the link down
process_link_change_up_only(link_up, mode, is_scanning) ==
    IF link_up
    THEN <<IF ~is_scanning THEN ESPIF_RUNNING_MODE ELSE mode, TRUE>>
    ELSE <<mode, associated>>

\* process_link_change(link_up, netif): the pair <<mode, associated>> it leaves
process_link_change(link_up, mode, is_scanning) ==
    IF link_up
    THEN <<IF ~is_scanning THEN ESPIF_RUNNING_MODE ELSE mode, TRUE>>
    ELSE <<mode, FALSE>>

\* a reset_intron that rewrites all six bytes
reset_intron_whole(intron) ==
    [ i \in 1..Len(intron) |-> i - 1 ]

\* process_link_change: netifapi_netif_set_link_up / _down is called when
\* associated.exchange(link_up) returned the other value
netif_set_link(netif, was, link_up) ==
    IF was # link_up THEN [ netif EXCEPT !.link_up = link_up ] ELSE netif

\* reset_intron(): bytes 2.. of the intron become i - 2
reset_intron(intron) ==
    [ i \in 1..Len(intron) |-> IF i > 2 THEN i - 3 ELSE intron[i] ]

\* UartRxParser::validate_checksum(): latches seen_intron on a valid checksum
validate_checksum(checksum_valid) ==
    IF checksum_valid THEN TRUE ELSE seen_intron

-----------------------------------------------------------------------------
(* espif_init *)

espif_init ==
    /\ ~active_esp_netif.bound
    /\ active_esp_netif' = [ bound |-> TRUE, hwaddr_len |-> 0, hwaddr |-> None,
                             link_up |-> FALSE ]
    /\ tx_intron' = reset_intron(tx_intron)
    /\ UNCHANGED <<esp_operating_mode, associated, init_countdown, seen_intron,
                   seen_rx_packet, esp_detected, esp_was_ok, scan, ap_info_queue,
                   poll_active>>
    /\ Emit(Op("espif_init", ERR_OK, NoFrame, NoArg))

-----------------------------------------------------------------------------
(* The polling task: espif_input_once and the messages its parser dispatches *)

\* espif_input_once entered; it returns at once unless the mode can receive
PollBegin ==
    /\ ~poll_active
    /\ active_esp_netif.bound
    /\ can_recieve_data(esp_operating_mode)
    /\ poll_active' = TRUE
    /\ UNCHANGED <<esp_operating_mode, associated, init_countdown, seen_intron,
                   seen_rx_packet, esp_detected, esp_was_ok, scan, ap_info_queue,
                   tx_intron, active_esp_netif>>
    /\ Emit(Op("poll_begin", ERR_OK, NoFrame, NoArg))

\* espif_input_once returns
PollEnd ==
    /\ poll_active
    /\ poll_active' = FALSE
    /\ UNCHANGED <<esp_operating_mode, associated, init_countdown, seen_intron,
                   seen_rx_packet, esp_detected, esp_was_ok, scan, ap_info_queue,
                   tx_intron, active_esp_netif>>
    /\ Emit(Op("poll_end", ERR_OK, NoFrame, NoArg))

\* uart_input fed bytes that completed no message
RxNoise ==
    /\ poll_active
    /\ esp_detected' = TRUE
    /\ UNCHANGED <<esp_operating_mode, associated, init_countdown, seen_intron,
                   seen_rx_packet, esp_was_ok, scan, ap_info_queue, tx_intron,
                   active_esp_netif, poll_active>>
    /\ Emit(Op("rx_noise", ERR_OK, NoFrame, NoArg))

\* process_esp_device_info that applies every device info, whatever the mode
device_info_mode_reapplied(mode, version) ==
    IF version # REQUIRED_PROTOCOL_VERSION THEN ESPIF_WRONG_FW ELSE ESPIF_NEED_AP

\* process_esp_device_info that does not compare the version
device_info_mode_anyversion(mode, version) ==
    IF mode = ESPIF_WAIT_INIT THEN ESPIF_NEED_AP ELSE mode

\* the mode process_esp_device_info leaves (compare_exchange_strong on WAIT_INIT)
device_info_mode(mode, version) ==
    IF mode = ESPIF_WAIT_INIT
    THEN (IF version # REQUIRED_PROTOCOL_VERSION THEN ESPIF_WRONG_FW ELSE ESPIF_NEED_AP)
    ELSE mode

\* process_esp_device_info that forgets the latch
device_info_was_ok_nolatch(mode, version, was_ok) == was_ok

\* the ever-ok latch process_esp_device_info leaves
device_info_was_ok(mode, version, was_ok) ==
    IF mode = ESPIF_WAIT_INIT /\ version = REQUIRED_PROTOCOL_VERSION THEN TRUE ELSE was_ok

\* UartRxParser::process_esp_device_info
process_esp_device_info(version, mac, checksum_valid) ==
    /\ poll_active
    /\ esp_detected' = TRUE
    /\ seen_intron' = validate_checksum(checksum_valid)
    /\ active_esp_netif' = [ active_esp_netif EXCEPT !.hwaddr_len = 6, !.hwaddr = mac ]
    /\ esp_operating_mode' = device_info_mode(esp_operating_mode, version)
    /\ esp_was_ok' = device_info_was_ok(esp_operating_mode, version, esp_was_ok)
    /\ UNCHANGED <<associated, init_countdown, seen_rx_packet, scan, ap_info_queue,
                   tx_intron, poll_active>>
    /\ Emit(Op("process_esp_device_info", ERR_OK, NoFrame,
               [ NoArg EXCEPT !.valid = checksum_valid, !.version = version ]))

\* UartRxParser::process_scan_ap_count
process_scan_ap_count(ap_count, checksum_valid) ==
    /\ poll_active
    /\ esp_detected' = TRUE
    /\ seen_intron' = validate_checksum(checksum_valid)
    /\ scan' = IF checksum_valid THEN [ scan EXCEPT !.ap_count = ap_count ] ELSE scan
    /\ UNCHANGED <<esp_operating_mode, associated, init_countdown, seen_rx_packet,
                   esp_was_ok, ap_info_queue, tx_intron, active_esp_netif, poll_active>>
    /\ Emit(Op("process_scan_ap_count", ERR_OK, NoFrame,
               [ NoArg EXCEPT !.valid = checksum_valid ]))

\* a send that queues without a capacity
queue_send_unbounded(queue, item) == Append(queue, item)

\* freertos::Queue<APInfo, 1>::send from the parser: a full slot drops the item
queue_send(queue, item) ==
    IF Len(queue) < 1 THEN Append(queue, item) ELSE queue

\* UartRxParser::process_scan_ap_info
process_scan_ap_info(ap_index, checksum_valid) ==
    /\ poll_active
    /\ esp_detected' = TRUE
    /\ seen_intron' = validate_checksum(checksum_valid)
    /\ ap_info_queue' = IF checksum_valid /\ ap_index = scan.ap_index
                          THEN queue_send(ap_info_queue, [ ap_index |-> ap_index ])
                          ELSE ap_info_queue
    /\ UNCHANGED <<esp_operating_mode, associated, init_countdown, seen_rx_packet,
                   esp_was_ok, scan, tx_intron, active_esp_netif, poll_active>>
    /\ Emit(Op("process_scan_ap_info", ERR_OK, NoFrame,
               [ NoArg EXCEPT !.valid = checksum_valid, !.index = ap_index ]))

\* UartRxParser::process_packet; input_ok is the result of netif->input
process_packet(up, checksum_valid, input_ok) ==
    /\ poll_active
    /\ esp_detected' = TRUE
    /\ seen_intron' = validate_checksum(checksum_valid)
    /\ LET lc == process_link_change(up, esp_operating_mode, scan.is_running) IN
        /\ esp_operating_mode' = IF checksum_valid THEN lc[1] ELSE esp_operating_mode
        /\ associated' = IF checksum_valid THEN lc[2] ELSE associated
    /\ active_esp_netif' = netif_set_link(active_esp_netif, associated, associated')
    /\ seen_rx_packet' = IF checksum_valid /\ input_ok THEN TRUE ELSE seen_rx_packet
    /\ UNCHANGED <<init_countdown, esp_was_ok, scan, ap_info_queue, tx_intron,
                   poll_active>>
    /\ Emit(Op("process_packet", IF checksum_valid /\ input_ok THEN ERR_OK ELSE ERR_IF,
               NoFrame, [ NoArg EXCEPT !.valid = checksum_valid ]))

-----------------------------------------------------------------------------
(* Caller tasks *)

\* low_level_output(netif, p): p is a chain of nseg pbufs
low_level_output(nseg, acc) ==
    /\ active_esp_netif.bound
    /\ UNCHANGED <<esp_operating_mode, associated, init_countdown, seen_intron,
                   seen_rx_packet, esp_detected, esp_was_ok, scan, ap_info_queue,
                   tx_intron, active_esp_netif, poll_active>>
    /\ IF ~is_running(esp_operating_mode)
       THEN Emit(Op("low_level_output", ERR_IF, NoFrame, NoArg))
       ELSE LET f == espif_tx_raw(PACKET_V2, 1, nseg, acc) IN
            Emit(Op("low_level_output", IF f.err # ERR_OK THEN ERR_IF ELSE ERR_OK,
                    <<f>>, NoArg))

\* espif_tx_msg_clientconfig_v2: the intron it builds from rand_u()
new_intron(intron, rnd) ==
    [ i \in 1..Len(intron) |-> IF i > 2 THEN rnd[i - 2] ELSE intron[i] ]

\* espif_tx_msg_clientconfig_v2 that commits the intron whatever the send returned
clientconfig_commit_always(intron, new, err) == new

\* espif_tx_msg_clientconfig_v2 that never commits the intron it sent
clientconfig_commit_never(intron, new, err) == intron

\* espif_tx_msg_clientconfig_v2: the intron left in tx_message after the send returned err
clientconfig_commit(intron, new, err) ==
    IF err = ERR_OK THEN new ELSE intron

\* the guards of join_ap without the one on the scan session
join_refused_mode_only(mode, scanning) == ~is_running(mode)

\* the guards of espif_join_ap (mode) and espif_tx_msg_clientconfig_v2 (scan session)
join_refused(mode, scanning) == ~is_running(mode) \/ scanning

\* espif_join_ap -> espif_tx_msg_clientconfig_v2; alloc_ok is the result of pbuf_alloc
espif_join_ap(rnd, alloc_ok, acc) ==
    /\ UNCHANGED <<associated, init_countdown, seen_intron, seen_rx_packet, esp_detected,
                   esp_was_ok, scan, ap_info_queue, active_esp_netif, poll_active>>
    /\ IF join_refused(esp_operating_mode, scan.is_running)
       THEN /\ UNCHANGED <<esp_operating_mode, tx_intron>>
            /\ Emit(Op("espif_join_ap", ERR_IF, NoFrame, NoArg))
       ELSE IF ~alloc_ok
       THEN /\ UNCHANGED <<esp_operating_mode, tx_intron>>
            /\ Emit(Op("espif_join_ap", ERR_MEM, NoFrame, NoArg))
       ELSE LET new == new_intron(tx_intron, rnd)
                f == espif_tx_raw(CLIENTCONFIG_V2, 0, 1, acc) IN
            /\ tx_intron' = clientconfig_commit(tx_intron, new, f.err)
            /\ esp_operating_mode' =
                   IF f.err = ERR_OK THEN ESPIF_CONNECTING_AP ELSE esp_operating_mode
            /\ Emit(Op("espif_join_ap", f.err, <<f>>, [ NoArg EXCEPT !.intron = new ]))

\* espif_tick that pings whether or not a packet was accepted
tick_pings_unconditional(link, rx_packet, mode) ==
    link /\ is_running(mode)

\* espif_tick that pings only when the mode is not an active one
tick_pings_inverted(link, rx_packet, mode) ==
    link /\ ~rx_packet /\ ~is_running(mode)

\* espif_tick: whether it pings the ESP
tick_pings(link, rx_packet, mode) ==
    link /\ ~rx_packet /\ is_running(mode)

\* espif_tick; acc is the transport's answer to the keepalive, if one is sent
espif_tick(acc) ==
    /\ init_countdown' = IF init_countdown > 0 THEN init_countdown - 1 ELSE init_countdown
    /\ seen_intron' = IF espif_link THEN FALSE ELSE seen_intron
    /\ seen_rx_packet' = IF espif_link THEN FALSE ELSE seen_rx_packet
    /\ UNCHANGED <<esp_operating_mode, associated, esp_detected, esp_was_ok, scan,
                   ap_info_queue, tx_intron, active_esp_netif, poll_active>>
    /\ Emit(Op("espif_tick",
               IF espif_link THEN seen_intron ELSE FALSE,
               IF tick_pings(espif_link, seen_rx_packet, esp_operating_mode)
               THEN <<espif_tx_raw(PACKET_V2, 1, 0, acc)>> ELSE NoFrame,
               NoArg))

\* espif_reset
espif_reset ==
    /\ active_esp_netif.bound
    /\ UNCHANGED <<init_countdown, seen_intron, seen_rx_packet, esp_was_ok, scan,
                   ap_info_queue, poll_active>>
    /\ IF ~can_recieve_data(esp_operating_mode)
       THEN /\ UNCHANGED <<esp_operating_mode, associated, esp_detected, tx_intron,
                           active_esp_netif>>
            /\ Emit(Op("espif_reset", ERR_IF, NoFrame, NoArg))
       ELSE /\ tx_intron' = reset_intron(tx_intron)
            /\ associated' = process_link_change(FALSE, esp_operating_mode, scan.is_running)[2]
            /\ active_esp_netif' = netif_set_link(active_esp_netif, associated, associated')
            /\ esp_detected' = FALSE
            /\ esp_operating_mode' = ESPIF_WAIT_INIT
            /\ EmitParser(Op("espif_reset", ERR_OK, NoFrame, NoArg),
                          RxParserBase_reset(uart_rx_parser))

\* espif_reset_connection
espif_reset_connection ==
    /\ active_esp_netif.bound
    /\ esp_operating_mode' = ESPIF_NEED_AP
    /\ associated' = process_link_change(FALSE, ESPIF_NEED_AP, scan.is_running)[2]
    /\ active_esp_netif' = netif_set_link(active_esp_netif, associated, associated')
    /\ UNCHANGED <<init_countdown, seen_intron, seen_rx_packet, esp_detected, esp_was_ok,
                   scan, ap_info_queue, tx_intron, poll_active>>
    /\ Emit(Op("espif_reset_connection", ERR_OK, NoFrame, NoArg))

\* espif_notify_flash_result that takes a missing ESP for a failed flash
flash_result_mode_confused(result) ==
    CASE result = "success" -> ESPIF_WAIT_INIT
      [] result = "not_connected" -> ESPIF_FLASHING_ERROR_OTHER
      [] result = "failure" -> ESPIF_FLASHING_ERROR_NOT_CONNECTED

\* espif_notify_flash_result: the mode it stores
flash_result_mode(result) ==
    CASE result = "success" -> ESPIF_WAIT_INIT
      [] result = "not_connected" -> ESPIF_FLASHING_ERROR_NOT_CONNECTED
      [] result = "failure" -> ESPIF_FLASHING_ERROR_OTHER

espif_notify_flash_result(result) ==
    /\ esp_operating_mode' = flash_result_mode(result)
    /\ UNCHANGED <<associated, init_countdown, seen_intron, seen_rx_packet, esp_detected,
                   esp_was_ok, scan, ap_info_queue, tx_intron, active_esp_netif,
                   poll_active>>
    /\ Emit(Op("espif_notify_flash_result", ERR_OK, NoFrame,
               [ NoArg EXCEPT !.result = result ]))

\* espif::scan::start: the scan session it leaves after the send returned err
scan_start_session(s, mode, err) ==
    IF err = ERR_OK
    THEN [ s EXCEPT !.is_running = TRUE, !.prescan_op_mode = mode, !.ap_count = 0 ]
    ELSE [ s EXCEPT !.is_running = FALSE ]

\* espif::scan::start
scan_start(acc) ==
    LET f == espif_tx_raw(SCAN_START, 0, 0, acc) IN
    /\ scan' = scan_start_session(scan, esp_operating_mode, f.err)
    /\ esp_operating_mode' = IF f.err = ERR_OK THEN ESPIF_SCANNING_MODE
                                              ELSE esp_operating_mode
    /\ UNCHANGED <<associated, init_countdown, seen_intron, seen_rx_packet, esp_detected,
                   esp_was_ok, ap_info_queue, tx_intron, active_esp_netif, poll_active>>
    /\ Emit(Op("scan_start", f.err, <<f>>, NoArg))

\* compare_exchange_weak(expected, desired) on the mode: it may fail spuriously
\* (cas_taken = FALSE) although the mode equals expected
compare_exchange_weak(mode, expected, desired, cas_taken) ==
    IF mode = expected /\ cas_taken THEN desired ELSE mode

\* espif::scan::stop
scan_stop(acc, cas_taken) ==
    /\ UNCHANGED <<associated, init_countdown, seen_intron, seen_rx_packet, esp_detected,
                   esp_was_ok, ap_info_queue, tx_intron, active_esp_netif, poll_active>>
    /\ IF ~scan.is_running
       THEN /\ UNCHANGED <<scan, esp_operating_mode>>
            /\ Emit(Op("scan_stop", ERR_IF, NoFrame, NoArg))
       ELSE LET f == espif_tx_raw(SCAN_STOP, 0, 0, acc) IN
            /\ scan' = IF f.err = ERR_OK THEN [ scan EXCEPT !.is_running = FALSE ] ELSE scan
            /\ esp_operating_mode' =
                   IF f.err = ERR_OK
                   THEN compare_exchange_weak(esp_operating_mode, ESPIF_SCANNING_MODE,
                                              scan.prescan_op_mode, cas_taken)
                   ELSE esp_operating_mode
            /\ Emit(Op("scan_stop", f.err, <<f>>, NoArg))

-----------------------------------------------------------------------------
(* The bridge: every handler, interleaved. e bounds the inputs: the number of *)
(* ticks, the tails rand_u() delivers, the counts and indices the scan        *)
(* messages carry, the lengths of the outgoing pbuf chains.                   *)

Bridge(e) ==
    \/ espif_init
    \/ PollBegin
    \/ PollEnd
    \/ RxNoise
    \/ \E v \in Versions, m \in MacAddrs, ok \in BOOLEAN : process_esp_device_info(v, m, ok)
    \/ \E n \in e.counts, ok \in BOOLEAN : process_scan_ap_count(n, ok)
    \/ \E i \in e.infos, ok \in BOOLEAN : process_scan_ap_info(i, ok)
    \/ \E up \in BOOLEAN, ok \in BOOLEAN, input_ok \in BOOLEAN : process_packet(up, ok, input_ok)
    \/ \E n \in e.segs : \E acc \in TxOutcomes(n) : low_level_output(n, acc)
    \/ \E rnd \in e.tails, alloc_ok \in BOOLEAN, acc \in TxOutcomes(1) :
          espif_join_ap(rnd, alloc_ok, acc)
    \/ /\ init_countdown > INIT_COUNTDOWN - e.ticks
       /\ \E acc \in TxOutcomes(0) : espif_tick(acc)
    \/ espif_reset
    \/ espif_reset_connection
    \/ \E r \in FlashResult : espif_notify_flash_result(r)
    \/ \E acc \in TxOutcomes(0) : scan_start(acc)
    \/ \E acc \in TxOutcomes(0), cas_taken \in BOOLEAN : scan_stop(acc, cas_taken)

\* the inputs every specification of the bridge has: one tick, one tail, an empty
\* scan result, a scan reply nobody asked for, one-segment packets
Env == [ ticks |-> 1, tails |-> { RandTail(0) }, counts |-> { 0 }, infos |-> { 1 },
         segs |-> { 1 } ]

-----------------------------------------------------------------------------
(* Spec: the bridge, recording the messages the parser dispatched *)

Init ==
    /\ InitBridge
    /\ watch = [ ops |-> RxOps, obs |-> {} ]

Next == Bridge(Env)

Spec == Init /\ [][Next]_vars

-----------------------------------------------------------------------------
(* SpecWrongFw: the bridge, recording the handlers that store a mode *)

InitWrongFw ==
    /\ InitBridge
    /\ watch = [ ops |-> { "process_esp_device_info", "process_packet", "espif_reset",
                           "espif_reset_connection", "espif_notify_flash_result",
                           "scan_start" },
                 obs |-> {} ]

SpecWrongFw == InitWrongFw /\ [][Next]_vars

-----------------------------------------------------------------------------
(* SpecScanModes: the bridge with scan results of 0..MaxApCount access points, *)
(* recording scan start / stop and the mode a scan was started in              *)

InitScanModes ==
    /\ InitBridge
    /\ watch = [ ops |-> { "scan_start", "scan_stop" }, obs |-> { "scan" } ]

NextScanModes == Bridge([ Env EXCEPT !.counts = 0..MaxApCount ])

SpecScanModes == InitScanModes /\ [][NextScanModes]_vars

-----------------------------------------------------------------------------
(* SpecTick: the bridge with MaxTicks ticks, recording the ticks and whether a *)
(* valid message arrived since the last one                                    *)

InitTick ==
    /\ InitBridge
    /\ watch = [ ops |-> { "espif_tick" }, obs |-> { "rx" } ]

NextTick == Bridge([ Env EXCEPT !.ticks = MaxTicks ])

SpecTick == InitTick /\ [][NextTick]_vars

-----------------------------------------------------------------------------
(* SpecKeepalive: the bridge MaxTicks - 1 ticks before the startup countdown  *)
(* runs out (the ticks before espif_init change nothing but the countdown),   *)
(* with any number of ticks from there on, recording the ticks and whether a  *)
(* packet was accepted since the last one                                     *)

InitKeepalive ==
    /\ InitStaticsExceptCountdown
    /\ init_countdown = MaxTicks - 1
    /\ InitRx(<<>>, [ alloc_fail |-> 0, input_fail |-> 0, null_next |-> "garbage", debug |-> FALSE ])
    /\ watch = [ ops |-> { "espif_tick" }, obs |-> { "pkt" } ]

NextKeepalive == Bridge([ Env EXCEPT !.ticks = INIT_COUNTDOWN + 1 ])

SpecKeepalive == InitKeepalive /\ [][NextKeepalive]_vars

-----------------------------------------------------------------------------
(* SpecIntron: the bridge with 1 + MaxTail random tails and chains of up to    *)
(* MaxSeg segments, recording join_ap and the introns put on the wire          *)

InitIntron ==
    /\ InitBridge
    /\ watch = [ ops |-> { "espif_join_ap" }, obs |-> { "wire" } ]

NextIntron == Bridge([ Env EXCEPT !.tails = RandTails, !.segs = 1..MaxSeg ])

SpecIntron == InitIntron /\ [][NextIntron]_vars

-----------------------------------------------------------------------------
(* SpecLatch: the bridge with INIT_COUNTDOWN ticks, so that the init countdown *)
(* runs out, recording nothing                                                 *)

InitLatch ==
    /\ InitBridge
    /\ watch = [ ops |-> {}, obs |-> {} ]

NextLatch == Bridge([ Env EXCEPT !.ticks = INIT_COUNTDOWN ])

SpecLatch == InitLatch /\ [][NextLatch]_vars

-----------------------------------------------------------------------------
(* SpecOutput: the bridge with chains of up to MaxSeg segments, recording the  *)
(* calls of low_level_output                                                   *)

InitOutput ==
    /\ InitBridge
    /\ watch = [ ops |-> { "low_level_output" }, obs |-> {} ]

NextOutput == Bridge([ Env EXCEPT !.segs = 1..MaxSeg ])

SpecOutput == InitOutput /\ [][NextOutput]_vars

-----------------------------------------------------------------------------
(* SpecTx: the tasks of Senders inside espif_tx_raw, one statement per step,  *)
(* and the DMA-complete interrupt                                             *)

Goto(s, pc) == [ tx_task EXCEPT ![s].pc = pc ]

\* a lock() that returns although another task holds the mutex
Mutex_lock_always(holder) == TRUE

\* freertos::Mutex::lock: xSemaphoreTake(portMAX_DELAY) returns once nobody holds it
Mutex_lock(holder) == holder = None

\* an espif_tx_buffer that withdraws its claim whatever the transport answered
tx_withdraws_always(tx_result) == TRUE

\* an espif_tx_buffer that waits for the completion whatever the transport answered
tx_withdraws_never(tx_result) == FALSE

\* espif_tx_buffer: the issuing call withdraws its claim iff the transport refused
tx_withdraws(tx_result) == tx_result # ERR_OK

\* a task calls espif_tx_raw with a chain of nseg pbufs (nseg = 0: nullptr)
espif_tx_raw_call(s, nseg) ==
    /\ tx_task[s].pc = "idle"
    /\ Len(wire) < MaxWire
    /\ tx_task' = [ tx_task EXCEPT ![s] = [ pc |-> "lock", nseg |-> nseg, seg |-> 0,
                                            result |-> ERR_OK ] ]
    /\ UNCHANGED <<uart_write_mutex, tx_semaphore, tx_semaphore_active, tx_header,
                   uart_dma, wire, tx_released, tx_assert_failed>>

\* std::lock_guard lock { uart_write_mutex }
espif_tx_raw_lock(s) ==
    /\ tx_task[s].pc = "lock"
    /\ Mutex_lock(uart_write_mutex)
    /\ uart_write_mutex' = s
    /\ tx_task' = Goto(s, "fill")
    /\ UNCHANGED <<tx_semaphore, tx_semaphore_active, tx_header, uart_dma, wire,
                   tx_released, tx_assert_failed>>

\* tx_message.header.type / variable_byte / size and data_checksum are written
espif_tx_raw_fill(s) ==
    /\ tx_task[s].pc = "fill"
    /\ tx_header' = [ owner |-> s, nseg |-> tx_task[s].nseg ]
    /\ tx_task' = Goto(s, "claim")
    /\ UNCHANGED <<uart_write_mutex, tx_semaphore, tx_semaphore_active, uart_dma, wire,
                   tx_released, tx_assert_failed>>

\* espif_tx_buffer: old_semaphore = tx_semaphore_active.exchange(&tx_semaphore)
espif_tx_buffer_claim(s) ==
    /\ tx_task[s].pc = "claim"
    /\ tx_semaphore_active' = TRUE
    /\ tx_assert_failed' = IF tx_semaphore_active
                           THEN tx_assert_failed \cup { "old_semaphore == nullptr" }
                           ELSE tx_assert_failed
    /\ tx_released' = <<>>
    /\ tx_task' = Goto(s, "issue")
    /\ UNCHANGED <<uart_write_mutex, tx_semaphore, tx_header, uart_dma, wire>>

\* espif_tx_buffer: HAL_UART_Transmit_DMA; the transport takes the chunk only
\* when no transfer is running and may refuse it for reasons of its own
espif_tx_buffer_issue(s, accept) ==
    /\ tx_task[s].pc = "issue"
    /\ accept => uart_dma = NoDma
    /\ LET tx_result == IF accept THEN ERR_OK ELSE HAL_ERROR IN
       /\ uart_dma' = IF accept
                      THEN << [ owner |-> s, idx |-> tx_task[s].seg,
                                nseg |-> tx_task[s].nseg, intron |-> tx_intron,
                                hdr_begin |-> tx_header, hdr_end |-> tx_header ] >>
                      ELSE uart_dma
       /\ tx_task' = [ tx_task EXCEPT ![s].result = tx_result,
                                      ![s].pc = IF tx_withdraws(tx_result) THEN "withdraw"
                                                ELSE "acquire" ]
    /\ UNCHANGED <<uart_write_mutex, tx_semaphore, tx_semaphore_active, tx_header, wire,
                   tx_released, tx_assert_failed>>

\* espif_tx_buffer: tx_semaphore.acquire()
espif_tx_buffer_acquire(s) ==
    /\ tx_task[s].pc = "acquire"
    /\ tx_semaphore = 1
    /\ tx_semaphore' = 0
    /\ tx_task' = Goto(s, "ret")
    /\ UNCHANGED <<uart_write_mutex, tx_semaphore_active, tx_header, uart_dma, wire,
                   tx_released, tx_assert_failed>>

\* espif_tx_buffer: withdrawn = tx_semaphore_active.exchange(nullptr)
espif_tx_buffer_withdraw(s) ==
    /\ tx_task[s].pc = "withdraw"
    /\ tx_semaphore_active' = FALSE
    /\ tx_released' = IF tx_semaphore_active THEN Append(tx_released, "caller")
                      ELSE tx_released
    /\ tx_assert_failed' = IF tx_semaphore_active THEN tx_assert_failed
                           ELSE tx_assert_failed \cup { "withdrawn == &tx_semaphore" }
    /\ tx_task' = Goto(s, "ret")
    /\ UNCHANGED <<uart_write_mutex, tx_semaphore, tx_header, uart_dma, wire>>

\* an espif_tx_raw that goes on with the next pbuf after a rejected chunk
tx_raw_returns_at_end(tx_result, seg, nseg) == seg = nseg

\* espif_tx_raw: it returns when espif_tx_buffer failed or tx_pbuf became nullptr
tx_raw_returns(tx_result, seg, nseg) == tx_result # ERR_OK \/ seg = nseg

\* espif_tx_raw after espif_tx_buffer returned: return on an error or after the
\* last pbuf (the lock_guard unlocks), else osDelay(1) and the next pbuf
espif_tx_raw_next(s) ==
    /\ tx_task[s].pc = "ret"
    /\ IF tx_raw_returns(tx_task[s].result, tx_task[s].seg, tx_task[s].nseg)
       THEN /\ uart_write_mutex' = None
            /\ tx_task' = Goto(s, "idle")
       ELSE /\ uart_write_mutex' = uart_write_mutex
            /\ tx_task' = [ tx_task EXCEPT ![s].seg = @ + 1, ![s].pc = "claim" ]
    /\ UNCHANGED <<tx_semaphore, tx_semaphore_active, tx_header, uart_dma, wire,
                   tx_released, tx_assert_failed>>

\* espif_tx_callback, run by the interrupt that ends the transfer the transport
\* accepted: the chunk is on the wire
espif_tx_callback ==
    /\ uart_dma # NoDma
    /\ uart_dma' = NoDma
    /\ wire' = Append(wire, [ uart_dma[1] EXCEPT !.hdr_end = tx_header ])
    /\ tx_semaphore_active' = FALSE
    /\ tx_semaphore' = IF tx_semaphore_active THEN 1 ELSE tx_semaphore
    /\ tx_released' = IF tx_semaphore_active THEN Append(tx_released, "isr")
                      ELSE tx_released
    /\ UNCHANGED <<tx_task, uart_write_mutex, tx_header, tx_assert_failed>>

InitTxSpec ==
    /\ InitBridge
    /\ watch = [ ops |-> {}, obs |-> {} ]

NextTx ==
    /\ \/ \E s \in Senders, nseg \in 0..MaxSeg : espif_tx_raw_call(s, nseg)
       \/ \E s \in Senders : espif_tx_raw_lock(s)
       \/ \E s \in Senders : espif_tx_raw_fill(s)
       \/ \E s \in Senders : espif_tx_buffer_claim(s)
       \/ \E s \in Senders, accept \in BOOLEAN : espif_tx_buffer_issue(s, accept)
       \/ \E s \in Senders : espif_tx_buffer_acquire(s)
       \/ \E s \in Senders : espif_tx_buffer_withdraw(s)
       \/ \E s \in Senders : espif_tx_raw_next(s)
       \/ espif_tx_callback
    /\ UNCHANGED <<bridgevars, scanvars, rxvars>>

SpecTx == InitTxSpec /\ [][NextTx]_vars

-----------------------------------------------------------------------------
(* SpecJoin: the task Joiner inside espif_join_ap, one statement per step,     *)
(* next to the other tasks inside espif_tx_raw and the DMA-complete interrupt. *)
(* The Joiner calls join_ap once.                                              *)

Joiner == "caller"

\* espif_join_ap up to the call of espif_tx_raw in espif_tx_msg_clientconfig_v2:
\* the guards, the new intron, pbuf_alloc
join_ap_enter(rnd, alloc_ok) ==
    /\ join_task.pc = "idle"
    /\ tx_task[Joiner].pc = "idle"
    /\ IF join_refused(esp_operating_mode, scan.is_running)
       THEN /\ join_task' = [ join_task EXCEPT !.pc = "return", !.err = ERR_IF ]
            /\ UNCHANGED tx_task
       ELSE IF ~alloc_ok
       THEN /\ join_task' = [ join_task EXCEPT !.pc = "return", !.err = ERR_MEM ]
            /\ UNCHANGED tx_task
       ELSE /\ join_task' = [ pc |-> "send", new_intron |-> new_intron(tx_intron, rnd),
                              err |-> ERR_OK ]
            /\ tx_task' = [ tx_task EXCEPT ![Joiner] = [ pc |-> "lock", nseg |-> 1,
                                                         seg |-> 0, result |-> ERR_OK ] ]
    /\ UNCHANGED <<uart_write_mutex, tx_semaphore, tx_semaphore_active, tx_header,
                   uart_dma, wire, tx_released, tx_assert_failed>>
    /\ UNCHANGED <<bridgevars, ap_info_task, get_ap_info_mutex, handler_task,
                   rxvars>>

\* err = espif_tx_raw(CLIENTCONFIG_V2, 0, pbuf) has returned and its lock_guard
\* has released uart_write_mutex
clientconfig_sent ==
    /\ join_task.pc = "send"
    /\ tx_task[Joiner].pc = "idle"
    /\ join_task' = [ join_task EXCEPT !.err = tx_task[Joiner].result,
                                       !.pc = IF tx_task[Joiner].result = ERR_OK
                                              THEN "lock" ELSE "return" ]
    /\ UNCHANGED <<bridgevars, txvars, ap_info_task, get_ap_info_mutex, handler_task,
                   rxvars>>

\* if (err == ERR_OK) { std::lock_guard lock { uart_write_mutex };
clientconfig_lock ==
    /\ join_task.pc = "lock"
    /\ Mutex_lock(uart_write_mutex)
    /\ uart_write_mutex' = Joiner
    /\ join_task' = [ join_task EXCEPT !.pc = "copy" ]
    /\ UNCHANGED <<tx_task, tx_semaphore, tx_semaphore_active, tx_header, uart_dma, wire,
                   tx_released, tx_assert_failed>>
    /\ UNCHANGED <<bridgevars, ap_info_task, get_ap_info_mutex, handler_task,
                   rxvars>>

\* std::copy_n(new_intron.begin(), ..., tx_message.intron.begin()); }
clientconfig_copy ==
    /\ join_task.pc = "copy"
    /\ tx_intron' = clientconfig_commit(tx_intron, join_task.new_intron, join_task.err)
    /\ uart_write_mutex' = None
    /\ join_task' = [ join_task EXCEPT !.pc = "return" ]
    /\ UNCHANGED <<esp_operating_mode, associated, init_countdown, seen_intron,
                   seen_rx_packet, esp_detected, esp_was_ok, scan, ap_info_queue,
                   active_esp_netif, poll_active, last_op, obs, watch>>
    /\ UNCHANGED <<tx_task, tx_semaphore, tx_semaphore_active, tx_header, uart_dma, wire,
                   tx_released, tx_assert_failed>>
    /\ UNCHANGED <<ap_info_task, get_ap_info_mutex, handler_task,
                   rxvars>>

\* espif_join_ap after espif_tx_msg_clientconfig_v2 returned err
join_ap_return ==
    /\ join_task.pc = "return"
    /\ esp_operating_mode' = IF join_task.err = ERR_OK THEN ESPIF_CONNECTING_AP
                                                      ELSE esp_operating_mode
    /\ join_task' = [ join_task EXCEPT !.pc = "done" ]
    /\ UNCHANGED <<associated, init_countdown, seen_intron, seen_rx_packet, esp_detected,
                   esp_was_ok, scan, ap_info_queue, tx_intron, active_esp_netif,
                   poll_active, last_op, obs, watch>>
    /\ UNCHANGED <<txvars, ap_info_task, get_ap_info_mutex, handler_task,
                   rxvars>>

InitJoin ==
    /\ InitBridge
    /\ watch = [ ops |-> {}, obs |-> {} ]

NextJoin ==
    \/ /\ \/ \E s \in Senders \ { Joiner }, nseg \in 0..MaxSeg : espif_tx_raw_call(s, nseg)
          \/ \E s \in Senders : espif_tx_raw_lock(s)
          \/ \E s \in Senders : espif_tx_raw_fill(s)
          \/ \E s \in Senders : espif_tx_buffer_claim(s)
          \/ \E s \in Senders, accept \in BOOLEAN : espif_tx_buffer_issue(s, accept)
          \/ \E s \in Senders : espif_tx_buffer_acquire(s)
          \/ \E s \in Senders : espif_tx_buffer_withdraw(s)
          \/ \E s \in Senders : espif_tx_raw_next(s)
          \/ espif_tx_callback
       /\ UNCHANGED <<bridgevars, scanvars, rxvars>>
    \/ \E rnd \in RandTails, alloc_ok \in BOOLEAN : join_ap_enter(rnd, alloc_ok)
    \/ clientconfig_sent
    \/ clientconfig_lock
    \/ clientconfig_copy
    \/ join_ap_return
    \/ uart_write_mutex = None /\ espif_init
    \/ espif_reset_connection

SpecJoin == InitJoin /\ [][NextJoin]_vars

-----------------------------------------------------------------------------
(* SpecIntronLock: the writers of tx_message.intron statement by statement: a *)
(* task inside espif_join_ap, a task inside espif_init and then espif_reset   *)
(* (its position is packet_task.pc.reset), and the tcpip thread sending       *)
(* packets; the polling task receives packets that take the link up and down  *)

Resetter == "reset"

resetframe == <<init_countdown, seen_intron, seen_rx_packet, esp_was_ok, scan,
                ap_info_queue, poll_active, last_op, obs, watch, tx_task, tx_semaphore,
                tx_semaphore_active, tx_header, uart_dma, wire, tx_released,
                tx_assert_failed, scanvars, uart_rx, dma_buffer_rx, old_dma_pos,
                uart_error_occured, uart_recovering, rx_fed, rx_chunks>>

ResetGoto(pc) == [ packet_task EXCEPT !.pc.reset = pc ]

\* espif_init up to reset_intron()
espif_init_enter ==
    /\ packet_task.pc.reset = "idle"
    /\ ~active_esp_netif.bound
    /\ active_esp_netif' = [ bound |-> TRUE, hwaddr_len |-> 0, hwaddr |-> None,
                             link_up |-> FALSE ]
    /\ packet_task' = ResetGoto("init_lock")
    /\ UNCHANGED <<esp_operating_mode, associated, esp_detected, tx_intron,
                   uart_write_mutex, uart_rx_parser, resetframe>>

\* espif_reset up to reset_intron(): it returns at once in a mode that cannot
\* receive
espif_reset_enter ==
    /\ packet_task.pc.reset = "idle"
    /\ active_esp_netif.bound
    /\ packet_task' = IF can_recieve_data(esp_operating_mode)
                      THEN ResetGoto("reset_lock") ELSE packet_task
    /\ UNCHANGED <<esp_operating_mode, associated, esp_detected, tx_intron,
                   active_esp_netif, uart_write_mutex, uart_rx_parser, resetframe>>

\* reset_intron: std::lock_guard lock { uart_write_mutex }
reset_intron_lock ==
    /\ packet_task.pc.reset \in { "init_lock", "reset_lock" }
    /\ Mutex_lock(uart_write_mutex)
    /\ uart_write_mutex' = Resetter
    /\ packet_task' = ResetGoto(IF packet_task.pc.reset = "init_lock"
                                THEN "init_write" ELSE "reset_write")
    /\ UNCHANGED <<esp_operating_mode, associated, esp_detected, tx_intron,
                   active_esp_netif, uart_rx_parser, resetframe>>

\* reset_intron: the loop over bytes 2.., then the lock_guard lets go;
\* espif_init returns here
reset_intron_write ==
    /\ packet_task.pc.reset \in { "init_write", "reset_write" }
    /\ tx_intron' = reset_intron(tx_intron)
    /\ uart_write_mutex' = None
    /\ packet_task' = ResetGoto(IF packet_task.pc.reset = "init_write"
                                THEN "idle" ELSE "force_down")
    /\ UNCHANGED <<esp_operating_mode, associated, esp_detected, active_esp_netif,
                   uart_rx_parser, resetframe>>

\* force_down -> process_link_change(false): associated.exchange(false)
force_down_exchange ==
    /\ packet_task.pc.reset = "force_down"
    /\ associated' = process_link_change(FALSE, esp_operating_mode, scan.is_running)[2]
    /\ packet_task' = ResetGoto(IF associated THEN "notify" ELSE "leave")
    /\ UNCHANGED <<esp_operating_mode, esp_detected, tx_intron, active_esp_netif,
                   uart_write_mutex, uart_rx_parser, resetframe>>

\* force_down -> process_link_change(false): netifapi_netif_set_link_down(netif)
force_down_notify ==
    /\ packet_task.pc.reset = "notify"
    /\ active_esp_netif' = netif_set_link(active_esp_netif, TRUE, FALSE)
    /\ packet_task' = ResetGoto("leave")
    /\ UNCHANGED <<esp_operating_mode, associated, esp_detected, tx_intron,
                   uart_write_mutex, uart_rx_parser, resetframe>>

\* espif_reset after force_down(): hard_reset_device(),
\* esp_operating_mode = ESPIF_WAIT_INIT, uart_rx_parser.reset()
espif_reset_leave ==
    /\ packet_task.pc.reset = "leave"
    /\ UNCHANGED associated
    /\ esp_detected' = FALSE
    /\ esp_operating_mode' = ESPIF_WAIT_INIT
    /\ uart_rx_parser' = RxParserBase_reset(uart_rx_parser)
    /\ packet_task' = ResetGoto("idle")
    /\ UNCHANGED <<tx_intron, active_esp_netif, uart_write_mutex, resetframe>>

InitIntronLock ==
    /\ InitBridge
    /\ watch = [ ops |-> {}, obs |-> {} ]

NextIntronLock ==
    \/ /\ \/ \E nseg \in { 0, MaxSeg } : espif_tx_raw_call("tcpip", nseg)
          \/ \E s \in Senders : espif_tx_raw_lock(s)
          \/ \E s \in Senders : espif_tx_raw_fill(s)
          \/ \E s \in Senders : espif_tx_buffer_claim(s)
          \/ \E s \in Senders, accept \in BOOLEAN : espif_tx_buffer_issue(s, accept)
          \/ \E s \in Senders : espif_tx_buffer_acquire(s)
          \/ \E s \in Senders : espif_tx_buffer_withdraw(s)
          \/ \E s \in Senders : espif_tx_raw_next(s)
          \/ espif_tx_callback
       /\ UNCHANGED <<bridgevars, scanvars, rxvars>>
    \/ \E rnd \in RandTails, alloc_ok \in BOOLEAN : join_ap_enter(rnd, alloc_ok)
    \/ clientconfig_sent
    \/ clientconfig_lock
    \/ clientconfig_copy
    \/ join_ap_return
    \/ espif_init_enter
    \/ espif_reset_enter
    \/ reset_intron_lock
    \/ reset_intron_write
    \/ force_down_exchange
    \/ force_down_notify
    \/ espif_reset_leave
    \/ espif_reset_connection
    \/ PollBegin
    \/ \E up \in BOOLEAN : process_packet(up, TRUE, TRUE)

SpecIntronLock == InitIntronLock /\ [][NextIntronLock]_vars

-----------------------------------------------------------------------------
(* SpecScanRace: the polling task inside process_packet and a caller task     *)
(* inside espif::scan::start, one access to an atomic per step; the other     *)
(* operations of the caller task as whole handlers between its starts         *)

handlerframe == <<init_countdown, esp_was_ok, ap_info_queue, tx_intron, poll_active,
                  last_op, obs, watch, txvars, ap_info_task, join_task,
                  get_ap_info_mutex, rxvars>>

PollGoto(pc) == [ handler_task EXCEPT !.poll.pc = pc ]
CallerGoto(pc) == [ handler_task EXCEPT !.caller.pc = pc ]

\* UartRxParser::process_packet of a packet with a valid checksum, up to the
\* call of process_link_change: validate_checksum() stores seen_intron
process_packet_enter(up, input_ok) ==
    /\ poll_active
    /\ handler_task.poll.pc = "idle"
    /\ esp_detected' = TRUE
    /\ seen_intron' = validate_checksum(TRUE)
    /\ handler_task' = [ handler_task EXCEPT
                           !.poll.pc = "link_test", !.poll.up = up,
                           !.poll.input_ok = input_ok, !.poll.changed = FALSE ]
    /\ UNCHANGED <<esp_operating_mode, associated, seen_rx_packet, scan,
                   active_esp_netif, handlerframe>>

\* process_link_change: if (link_up) { if (!scan.is_running)
process_link_change_test ==
    /\ handler_task.poll.pc = "link_test"
    /\ handler_task' = PollGoto(IF handler_task.poll.up /\ ~scan.is_running
                                THEN "store" ELSE "exchange")
    /\ UNCHANGED <<esp_operating_mode, associated, seen_intron, seen_rx_packet,
                   esp_detected, scan, active_esp_netif, handlerframe>>

\* process_link_change: esp_operating_mode = ESPIF_RUNNING_MODE
process_link_change_store ==
    /\ handler_task.poll.pc = "store"
    /\ esp_operating_mode' = process_link_change(TRUE, esp_operating_mode, FALSE)[1]
    /\ handler_task' = PollGoto("exchange")
    /\ UNCHANGED <<associated, seen_intron, seen_rx_packet, esp_detected, scan,
                   active_esp_netif, handlerframe>>

\* process_link_change: associated.exchange(link_up)
process_link_change_exchange ==
    /\ handler_task.poll.pc = "exchange"
    /\ associated' = handler_task.poll.up
    /\ handler_task' = [ handler_task EXCEPT
                           !.poll.changed = associated # handler_task.poll.up,
                           !.poll.pc = IF associated # handler_task.poll.up
                                       THEN "notify" ELSE "input" ]
    /\ UNCHANGED <<esp_operating_mode, seen_intron, seen_rx_packet, esp_detected, scan,
                   active_esp_netif, handlerframe>>

\* process_link_change: netifapi_netif_set_link_up / _down(netif)
process_link_change_notify ==
    /\ handler_task.poll.pc = "notify"
    /\ active_esp_netif' = netif_set_link(active_esp_netif, ~handler_task.poll.up,
                                          handler_task.poll.up)
    /\ handler_task' = PollGoto("input")
    /\ UNCHANGED <<esp_operating_mode, associated, seen_intron, seen_rx_packet,
                   esp_detected, scan, handlerframe>>

\* UartRxParser::process_packet after process_link_change: netif->input
process_packet_leave ==
    /\ handler_task.poll.pc = "input"
    /\ seen_rx_packet' = (handler_task.poll.input_ok \/ seen_rx_packet)
    /\ handler_task' = PollGoto("idle")
    /\ UNCHANGED <<esp_operating_mode, associated, seen_intron, esp_detected, scan,
                   active_esp_netif, handlerframe>>

\* espif::scan::start: scan.is_running.exchange(true)
scan_start_enter ==
    /\ handler_task.caller.pc = "idle"
    /\ scan' = [ scan EXCEPT !.is_running = TRUE ]
    /\ handler_task' = CallerGoto("send")
    /\ UNCHANGED <<esp_operating_mode, associated, seen_intron, seen_rx_packet,
                   esp_detected, active_esp_netif, handlerframe>>

\* espif::scan::start: err = espif_tx_raw(SCAN_START, 0, nullptr)
scan_start_sent(acc) ==
    /\ handler_task.caller.pc = "send"
    /\ handler_task' = [ handler_task EXCEPT
                           !.caller = [ pc |-> "sent",
                                        err |-> espif_tx_raw(SCAN_START, 0, 0, acc).err ] ]
    /\ UNCHANGED <<esp_operating_mode, associated, seen_intron, seen_rx_packet,
                   esp_detected, scan, active_esp_netif, handlerframe>>

\* espif::scan::start: the branches on err, and the return
scan_start_leave ==
    /\ handler_task.caller.pc = "sent"
    /\ IF handler_task.caller.err = ERR_OK
       THEN /\ scan' = [ scan EXCEPT !.prescan_op_mode = esp_operating_mode,
                                     !.ap_count = 0 ]
            /\ esp_operating_mode' = ESPIF_SCANNING_MODE
       ELSE /\ scan' = [ scan EXCEPT !.is_running = FALSE ]
            /\ UNCHANGED esp_operating_mode
    /\ handler_task' = CallerGoto("idle")
    /\ UNCHANGED <<associated, seen_intron, seen_rx_packet, esp_detected,
                   active_esp_netif, handlerframe>>

\* espif_reset_connection: esp_operating_mode.exchange(ESPIF_NEED_AP)
espif_reset_connection_enter ==
    /\ handler_task.caller.pc = "idle"
    /\ active_esp_netif.bound
    /\ esp_operating_mode' = ESPIF_NEED_AP
    /\ handler_task' = CallerGoto("exchange")
    /\ UNCHANGED <<associated, seen_intron, seen_rx_packet, esp_detected, scan,
                   active_esp_netif, handlerframe>>

\* espif_reset_connection -> process_link_change(false): associated.exchange(false)
espif_reset_connection_exchange ==
    /\ handler_task.caller.pc = "exchange"
    /\ associated' = process_link_change(FALSE, esp_operating_mode, scan.is_running)[2]
    /\ handler_task' = CallerGoto(IF associated THEN "notify" ELSE "idle")
    /\ UNCHANGED <<esp_operating_mode, seen_intron, seen_rx_packet, esp_detected, scan,
                   active_esp_netif, handlerframe>>

\* espif_reset_connection -> process_link_change(false):
\* netifapi_netif_set_link_down(netif)
espif_reset_connection_notify ==
    /\ handler_task.caller.pc = "notify"
    /\ active_esp_netif' = netif_set_link(active_esp_netif, TRUE, FALSE)
    /\ handler_task' = CallerGoto("idle")
    /\ UNCHANGED <<esp_operating_mode, associated, seen_intron, seen_rx_packet,
                   esp_detected, scan, handlerframe>>

ModeChangers == { "scan_stop", "espif_reset", "espif_reset_connection",
                  "espif_notify_flash_result" }

InitScanRace ==
    /\ InitBridge
    /\ watch = [ ops |-> ModeChangers, obs |-> {} ]

NextScanRace ==
    \/ espif_init
    \/ PollBegin
    \/ handler_task.poll.pc = "idle" /\ PollEnd
    \/ \E up \in BOOLEAN, input_ok \in BOOLEAN : process_packet_enter(up, input_ok)
    \/ process_link_change_test
    \/ process_link_change_store
    \/ process_link_change_exchange
    \/ process_link_change_notify
    \/ process_packet_leave
    \/ scan_start_enter
    \/ \E acc \in TxOutcomes(0) : scan_start_sent(acc)
    \/ scan_start_leave
    \/ /\ handler_task.caller.pc = "idle"
       /\ \/ \E acc \in TxOutcomes(0), cas_taken \in BOOLEAN : scan_stop(acc, cas_taken)
          \/ espif_reset
          \/ espif_reset_connection
          \/ \E r \in FlashResult : espif_notify_flash_result(r)

SpecScanRace == InitScanRace /\ [][NextScanRace]_vars

-----------------------------------------------------------------------------
(* SpecDeviceRace: the polling task inside process_esp_device_info, one       *)
(* access to the mode per step, and a task inside espif_join_ap as in         *)
(* SpecJoin. The flasher reports its success before the ESP reports a wrong   *)
(* version.                                                                   *)

\* process_esp_device_info up to and including
\* esp_operating_mode.compare_exchange_strong(old, ESPIF_NEED_AP)
process_esp_device_info_cas(version, mac) ==
    /\ poll_active
    /\ handler_task.poll.pc = "idle"
    /\ esp_detected' = TRUE
    /\ seen_intron' = validate_checksum(TRUE)
    /\ active_esp_netif' = [ active_esp_netif EXCEPT !.hwaddr_len = 6, !.hwaddr = mac ]
    /\ esp_operating_mode' = IF esp_operating_mode = ESPIF_WAIT_INIT
                              THEN ESPIF_NEED_AP ELSE esp_operating_mode
    /\ handler_task' = [ handler_task EXCEPT
                           !.poll.version = version,
                           !.poll.pc = IF esp_operating_mode = ESPIF_WAIT_INIT
                                       THEN "cas_taken" ELSE "idle" ]
    /\ UNCHANGED <<associated, seen_rx_packet, scan, handlerframe>>

\* process_esp_device_info inside the if: the test of the version and the
\* store of ESPIF_WRONG_FW, or of ESPIF_NEED_AP and esp_was_ok
process_esp_device_info_store ==
    /\ handler_task.poll.pc = "cas_taken"
    /\ esp_operating_mode' = device_info_mode(ESPIF_WAIT_INIT, handler_task.poll.version)
    /\ esp_was_ok' = device_info_was_ok(ESPIF_WAIT_INIT, handler_task.poll.version,
                                        esp_was_ok)
    /\ handler_task' = [ handler_task EXCEPT
                           !.poll.pc = "idle",
                           !.poll.wrong_fw =
                               handler_task.poll.version # REQUIRED_PROTOCOL_VERSION ]
    /\ UNCHANGED <<associated, init_countdown, seen_intron, seen_rx_packet, esp_detected,
                   scan, ap_info_queue, tx_intron, active_esp_netif, poll_active,
                   last_op, obs, watch, txvars, ap_info_task, join_task,
                   get_ap_info_mutex, rxvars>>

InitDeviceRace ==
    /\ InitBridge
    /\ watch = [ ops |-> {}, obs |-> {} ]

NextDeviceRace ==
    \/ espif_init
    \/ PollBegin
    \/ handler_task.poll.pc = "idle" /\ PollEnd
    \/ ~handler_task.poll.wrong_fw /\ espif_notify_flash_result("success")
    \/ \E v \in Versions, m \in MacAddrs : process_esp_device_info_cas(v, m)
    \/ process_esp_device_info_store
    \/ /\ \/ espif_tx_raw_lock(Joiner)
          \/ espif_tx_raw_fill(Joiner)
          \/ espif_tx_buffer_claim(Joiner)
          \/ \E accept \in BOOLEAN : espif_tx_buffer_issue(Joiner, accept)
          \/ espif_tx_buffer_acquire(Joiner)
          \/ espif_tx_buffer_withdraw(Joiner)
          \/ espif_tx_raw_next(Joiner)
          \/ espif_tx_callback
       /\ UNCHANGED <<bridgevars, scanvars, rxvars>>
    \/ \E rnd \in RandTails, alloc_ok \in BOOLEAN : join_ap_enter(rnd, alloc_ok)
    \/ clientconfig_sent
    \/ clientconfig_lock
    \/ clientconfig_copy
    \/ join_ap_return

SpecDeviceRace == InitDeviceRace /\ [][NextDeviceRace]_vars

-----------------------------------------------------------------------------
(* SpecLinkNotify: the three callers of process_link_change, one access per   *)
(* step: the polling task inside process_packet, a task inside espif_reset    *)
(* (packet_task.pc.reset) and a task inside espif_reset_connection            *)

InitLinkNotify ==
    /\ InitBridge
    /\ watch = [ ops |-> {}, obs |-> {} ]

NextLinkNotify ==
    \/ espif_init
    \/ PollBegin
    \/ handler_task.poll.pc = "idle" /\ PollEnd
    \/ \E up \in BOOLEAN, input_ok \in BOOLEAN : process_packet_enter(up, input_ok)
    \/ process_link_change_test
    \/ process_link_change_store
    \/ process_link_change_exchange
    \/ process_link_change_notify
    \/ process_packet_leave
    \/ espif_reset_connection_enter
    \/ espif_reset_connection_exchange
    \/ espif_reset_connection_notify
    \/ espif_reset_enter
    \/ reset_intron_lock
    \/ reset_intron_write
    \/ force_down_exchange
    \/ force_down_notify
    \/ espif_reset_leave

SpecLinkNotify == InitLinkNotify /\ [][NextLinkNotify]_vars

-----------------------------------------------------------------------------
(* SpecApInfo: a task inside espif::scan::get_ap_info, one loop statement per *)
(* step, and the handlers that fill the scan results                          *)

\* get_ap_info(index, buffer, needs_password) up to the loop
get_ap_info_enter(index) ==
    /\ ap_info_task.pc = "idle"
    /\ index < scan.ap_count
    /\ scan' = [ scan EXCEPT !.ap_index = index ]
    /\ ap_info_task' = [ pc |-> "loop", index |-> index, tries |-> AP_INFO_TRIES,
                         last_error |-> ERR_OK, requests |-> 0, attempts |-> <<>>,
                         ret |-> ERR_OK ]
    /\ UNCHANGED ap_info_queue

\* while (tries >= 0) { --tries; err = espif_tx_raw(SCAN_AP_GET, index, nullptr); ...
get_ap_info_request(acc) ==
    /\ ap_info_task.pc = "loop"
    /\ ap_info_task.tries >= 0
    /\ LET err == espif_tx_raw(SCAN_AP_GET, ap_info_task.index, 0, acc).err IN
       ap_info_task' = [ ap_info_task EXCEPT
                            !.tries = @ - 1,
                            !.requests = @ + 1,
                            !.last_error = IF err # ERR_OK THEN err ELSE @,
                            !.attempts = IF err # ERR_OK THEN Append(@, err) ELSE @,
                            !.pc = IF err # ERR_OK THEN "loop" ELSE "wait" ]
    /\ UNCHANGED <<scan, ap_info_queue>>

\* ap_info_queue.try_receive(info, SYNC_EVENT_TIMEOUT) returns an item
get_ap_info_receive ==
    /\ ap_info_task.pc = "wait"
    /\ ap_info_queue # <<>>
    /\ ap_info_queue' = Tail(ap_info_queue)
    /\ ap_info_task' = [ ap_info_task EXCEPT !.pc = "done", !.ret = ERR_OK,
                                             !.attempts = Append(@, ERR_OK) ]
    /\ UNCHANGED scan

\* ap_info_queue.try_receive(info, SYNC_EVENT_TIMEOUT) times out
get_ap_info_timeout ==
    /\ ap_info_task.pc = "wait"
    /\ ap_info_queue = <<>>
    /\ ap_info_task' = [ ap_info_task EXCEPT !.pc = "loop", !.last_error = ERR_IF,
                                             !.attempts = Append(@, ERR_IF) ]
    /\ UNCHANGED <<scan, ap_info_queue>>

\* the loop ends: return last_error
get_ap_info_return ==
    /\ ap_info_task.pc = "loop"
    /\ ap_info_task.tries < 0
    /\ ap_info_task' = [ ap_info_task EXCEPT !.pc = "done", !.ret = ap_info_task.last_error ]
    /\ UNCHANGED <<scan, ap_info_queue>>

\* the caller has the result
get_ap_info_leave ==
    /\ ap_info_task.pc = "done"
    /\ ap_info_task' = NoApInfoTask
    /\ UNCHANGED <<scan, ap_info_queue>>

\* a lock_guard that keeps the mutex at the end of its scope
ap_info_unlock_never(holder) == holder

\* the lock_guard of get_ap_info at the end of its scope
ap_info_unlock(holder) == None

\* std::lock_guard lock(ScanData::get_ap_info_mutex) in the task s
get_ap_info_lock(s) ==
    /\ Mutex_lock(get_ap_info_mutex.holder)
    /\ get_ap_info_mutex' = [ get_ap_info_mutex EXCEPT !.holder = s,
                                                       !.waiting = @ \ { s } ]

\* get_ap_info returns: the lock_guard unlocks
get_ap_info_unlock ==
    get_ap_info_mutex' = [ get_ap_info_mutex EXCEPT !.holder = ap_info_unlock(@) ]

get_ap_info ==
    /\ \/ /\ \E index \in 0..MaxApCount : get_ap_info_enter(index)
          /\ get_ap_info_lock(Joiner)
       \/ /\ \/ \E acc \in TxOutcomes(0) : get_ap_info_request(acc)
             \/ get_ap_info_receive
             \/ get_ap_info_timeout
             \/ get_ap_info_return
          /\ UNCHANGED get_ap_info_mutex
       \/ /\ get_ap_info_leave
          /\ get_ap_info_unlock
    /\ UNCHANGED <<esp_operating_mode, associated, init_countdown, seen_intron,
                   seen_rx_packet, esp_detected, esp_was_ok, tx_intron, active_esp_netif,
                   poll_active, last_op, obs, watch>>
    /\ UNCHANGED <<txvars, rxvars, join_task, handler_task>>

InitApInfo ==
    /\ InitBridge
    /\ watch = [ ops |-> {}, obs |-> {} ]

NextApInfo ==
    \/ get_ap_info
    \/ espif_init
    \/ espif_reset_connection
    \/ PollBegin
    \/ PollEnd
    \/ \E n \in 0..MaxApCount, ok \in BOOLEAN : process_scan_ap_count(n, ok)
    \/ \E i \in 0..MaxApCount, ok \in BOOLEAN : process_scan_ap_info(i, ok)

SpecApInfo == InitApInfo /\ [][NextApInfo]_vars

-----------------------------------------------------------------------------
(* SpecLocks: the task Joiner calls get_ap_info once while the task tcpip    *)
(* sends packets, every task inside espif_tx_raw one statement per step.      *)
(* SpecApLive: the tasks of ApCallers call get_ap_info once each. In both the *)
(* ESP never answers, the scheduler is fair to every task, a task blocked on  *)
(* a mutex gets it when it is released again and again, and the interrupt of  *)
(* every transfer the transport accepted arrives.                             *)

ApCallers == { "caller", "wui" }

\* everything espif::scan::get_ap_info leaves alone besides the send side
apframe == <<esp_operating_mode, associated, init_countdown, seen_intron, seen_rx_packet,
             esp_detected, esp_was_ok, tx_intron, active_esp_netif, poll_active,
             last_op, obs, watch, join_task, handler_task, rxvars>>

\* the task s calls get_ap_info and blocks in lock()
get_ap_info_call(s) ==
    /\ s \notin get_ap_info_mutex.called
    /\ tx_task[s].pc = "idle"
    /\ scan.ap_count > 0
    /\ get_ap_info_mutex' = [ get_ap_info_mutex EXCEPT !.waiting = @ \cup { s },
                                                       !.called = @ \cup { s } ]
    /\ UNCHANGED <<scan, ap_info_queue, ap_info_task, txvars, apframe>>

\* the task s gets the lock and runs get_ap_info up to the loop
get_ap_info_locked(s) ==
    /\ s \in get_ap_info_mutex.waiting
    /\ get_ap_info_lock(s)
    /\ \E index \in 0..MaxApCount : get_ap_info_enter(index)
    /\ UNCHANGED <<txvars, apframe>>

\* --tries; err = espif_tx_raw(SCAN_AP_GET, index, nullptr): the call
get_ap_info_send(s) ==
    /\ get_ap_info_mutex.holder = s
    /\ ap_info_task.pc = "loop"
    /\ ap_info_task.tries >= 0
    /\ tx_task[s].pc = "idle"
    /\ ap_info_task' = [ ap_info_task EXCEPT !.tries = @ - 1, !.requests = @ + 1,
                                             !.pc = "tx" ]
    /\ tx_task' = [ tx_task EXCEPT ![s] = [ pc |-> "lock", nseg |-> 0, seg |-> 0,
                                            result |-> ERR_OK ] ]
    /\ UNCHANGED <<uart_write_mutex, tx_semaphore, tx_semaphore_active, tx_header,
                   uart_dma, wire, tx_released, tx_assert_failed>>
    /\ UNCHANGED <<scan, ap_info_queue, get_ap_info_mutex, apframe>>

\* err = espif_tx_raw(...) has returned: continue on an error, else try_receive
get_ap_info_sent(s) ==
    /\ get_ap_info_mutex.holder = s
    /\ ap_info_task.pc = "tx"
    /\ tx_task[s].pc = "idle"
    /\ LET err == tx_task[s].result IN
       ap_info_task' = [ ap_info_task EXCEPT
                            !.last_error = IF err # ERR_OK THEN err ELSE @,
                            !.pc = IF err # ERR_OK THEN "loop" ELSE "wait" ]
    /\ UNCHANGED <<scan, ap_info_queue, get_ap_info_mutex, txvars, apframe>>

\* ap_info_queue.try_receive(info, SYNC_EVENT_TIMEOUT) returns after the
\* timeout, or with a reply that was in the queue; then the loop goes on or
\* ends (the attempts are not recorded here)
get_ap_info_wait ==
    /\ \/ get_ap_info_receive
       \/ /\ ap_info_task.pc = "wait"
          /\ ap_info_queue = <<>>
          /\ ap_info_task' = [ ap_info_task EXCEPT !.pc = "loop", !.last_error = ERR_IF ]
          /\ UNCHANGED <<scan, ap_info_queue>>
       \/ get_ap_info_return
    /\ UNCHANGED <<get_ap_info_mutex, txvars, apframe>>

\* get_ap_info returns to its caller
get_ap_info_done ==
    /\ get_ap_info_leave
    /\ get_ap_info_unlock
    /\ UNCHANGED <<txvars, apframe>>

\* the task s, outside get_ap_info, calls espif_tx_raw once with a chain of
\* nseg pbufs
espif_tx_raw_once(s, nseg) ==
    /\ s \notin get_ap_info_mutex.called
    /\ tx_task[s].pc = "idle"
    /\ tx_task' = [ tx_task EXCEPT ![s] = [ pc |-> "lock", nseg |-> nseg, seg |-> 0,
                                            result |-> ERR_OK ] ]
    /\ get_ap_info_mutex' = [ get_ap_info_mutex EXCEPT !.called = @ \cup { s } ]
    /\ UNCHANGED <<uart_write_mutex, tx_semaphore, tx_semaphore_active, tx_header,
                   uart_dma, wire, tx_released, tx_assert_failed>>
    /\ UNCHANGED <<scan, ap_info_queue, ap_info_task, apframe>>

\* a step of the task s inside espif_tx_raw after it got the lock
TxStep(s) ==
    /\ \/ espif_tx_raw_fill(s)
       \/ espif_tx_buffer_claim(s)
       \/ \E accept \in BOOLEAN : espif_tx_buffer_issue(s, accept)
       \/ espif_tx_buffer_acquire(s)
       \/ espif_tx_buffer_withdraw(s)
       \/ espif_tx_raw_next(s)
    /\ UNCHANGED <<bridgevars, scanvars, rxvars>>

\* the task s gets uart_write_mutex
TxLock(s) == espif_tx_raw_lock(s) /\ UNCHANGED <<bridgevars, scanvars, rxvars>>

\* the DMA-complete interrupt
TxIsr == espif_tx_callback /\ UNCHANGED <<bridgevars, scanvars, rxvars>>

InitLocks ==
    /\ InitBridge
    /\ watch = [ ops |-> {}, obs |-> {} ]

NextApLive ==
    \/ espif_init
    \/ espif_reset_connection
    \/ PollBegin
    \/ process_scan_ap_count(MaxApCount, TRUE)
    \/ \E s \in Senders : TxLock(s)
    \/ \E s \in Senders : TxStep(s)
    \/ TxIsr
    \/ \E s \in ApCallers : get_ap_info_call(s)
    \/ \E s \in ApCallers : get_ap_info_locked(s)
    \/ \E s \in ApCallers : get_ap_info_send(s)
    \/ \E s \in ApCallers : get_ap_info_sent(s)
    \/ get_ap_info_wait
    \/ get_ap_info_done

NextLocks ==
    \/ espif_init
    \/ espif_reset_connection
    \/ PollBegin
    \/ process_scan_ap_count(MaxApCount, TRUE)
    \/ \E nseg \in { 0, MaxSeg } : espif_tx_raw_once("tcpip", nseg)
    \/ \E s \in Senders : TxLock(s)
    \/ \E s \in Senders : TxStep(s)
    \/ TxIsr
    \/ get_ap_info_call(Joiner)
    \/ \E s \in ApCallers : get_ap_info_locked(s)
    \/ \E s \in ApCallers : get_ap_info_send(s)
    \/ \E s \in ApCallers : get_ap_info_sent(s)
    \/ get_ap_info_wait
    \/ get_ap_info_done

FairLocks ==
    /\ \A s \in Senders : SF_vars(TxLock(s)) /\ WF_vars(TxStep(s))
    /\ WF_vars(TxIsr)
    /\ \A s \in ApCallers : /\ SF_vars(get_ap_info_locked(s))
                             /\ WF_vars(get_ap_info_send(s))
                             /\ WF_vars(get_ap_info_sent(s))
    /\ WF_vars(get_ap_info_wait)
    /\ WF_vars(get_ap_info_done)

SpecLocks == InitLocks /\ [][NextLocks]_vars /\ FairLocks

SpecApLive == InitLocks /\ [][NextApLive]_vars /\ FairLocks

-----------------------------------------------------------------------------
(* SpecApReply: SpecApInfo after a scan that found up to 1 + MaxApCount access *)
(* points, so that get_ap_info is called with different indices, recording the *)
(* SCAN_AP_INFO replies                                                        *)

InitApReply ==
    /\ InitBridge
    /\ watch = [ ops |-> { "process_scan_ap_info" }, obs |-> {} ]

NextApReply ==
    \/ get_ap_info
    \/ espif_init
    \/ espif_reset_connection
    \/ PollBegin
    \/ PollEnd
    \/ \E n \in 0..(MaxApCount + 1), ok \in BOOLEAN : process_scan_ap_count(n, ok)
    \/ \E i \in 0..MaxApCount, ok \in BOOLEAN : process_scan_ap_info(i, ok)

SpecApReply == InitApReply /\ [][NextApReply]_vars

-----------------------------------------------------------------------------
(* SpecRx: the ESP sends a stream of Streams byte by byte, the receive DMA    *)
(* writes it into the ring buffer, and the                                    *)
(* polling task drains the ring into the parser with espif_input_once. The    *)
(* messages the parser dispatched are recorded in uart_rx_parser.dispatched;  *)
(* what their handlers do to the bridge is the subject of Spec.               *)

\* everything but the receive side and esp_detected
rxframe == <<esp_operating_mode, associated, init_countdown, seen_intron, seen_rx_packet,
             esp_was_ok, scan, ap_info_queue, tx_intron, active_esp_netif, poll_active,
             last_op, obs, watch, txvars, scanvars>>

\* one byte arrives and the circular receive DMA stores it; the ESP runs once
\* the bridge can receive, and the DMA stays less than one buffer ahead of the poll
uart_rx_byte ==
    /\ active_esp_netif.bound
    /\ can_recieve_data(esp_operating_mode)
    /\ uart_rx.sent < Len(uart_rx.stream)
    /\ uart_rx.dma
    /\ uart_rx.unpolled + 1 < RX_BUFFER_LEN
    /\ dma_buffer_rx' = [ dma_buffer_rx EXCEPT ![uart_rx.pos + 1] =
                                               uart_rx.stream[uart_rx.sent + 1] ]
    /\ uart_rx' = [ uart_rx EXCEPT !.sent = @ + 1,
                                   !.pos = (@ + 1) % RX_BUFFER_LEN,
                                   !.unpolled = @ + 1 ]
    /\ UNCHANGED <<old_dma_pos, uart_error_occured, uart_recovering, packet_task,
                   uart_rx_parser, rx_fed, rx_chunks,
                   esp_detected, rxframe>>

\* chunks that stop at the end of the buffer instead of continuing at its start
input_chunks_to_end(buffer, old_pos, pos) ==
    IF pos = old_pos THEN <<>>
    ELSE IF pos > old_pos THEN << SubSeq(buffer, old_pos + 1, pos) >>
    ELSE << SubSeq(buffer, old_pos + 1, Len(buffer)) >>

\* the chunks espif_input_once passes to uart_input when the DMA is at pos
input_chunks(buffer, old_pos, pos) ==
    IF pos = old_pos THEN <<>>
    ELSE IF pos > old_pos THEN << SubSeq(buffer, old_pos + 1, pos) >>
    ELSE << SubSeq(buffer, old_pos + 1, Len(buffer)) >>
         \o (IF pos > 0 THEN << SubSeq(buffer, 1, pos) >> ELSE <<>>)

\* espif_input_once without a reported UART line error: the bytes from
\* old_dma_pos to the DMA position. The recovery branch is
\* espif_input_once_recover followed by espif_input_once_reinit.
espif_input_once ==
    /\ active_esp_netif.bound
    /\ can_recieve_data(esp_operating_mode)
    /\ ~uart_recovering
    /\ ~uart_error_occured
    /\ LET pos == uart_rx.pos
           chunks == input_chunks(dma_buffer_rx, old_dma_pos, pos)
           p1 == IF Len(chunks) >= 1
                 THEN uart_input(uart_rx_parser, chunks[1], tx_intron, uart_rx.plan)
                 ELSE uart_rx_parser
           p2 == IF Len(chunks) = 2 THEN uart_input(p1, chunks[2], tx_intron, uart_rx.plan)
                 ELSE p1
       IN /\ uart_rx_parser' = p2
          /\ rx_fed' = IF Len(chunks) = 0 THEN rx_fed
                       ELSE IF Len(chunks) = 1 THEN rx_fed \o chunks[1]
                       ELSE rx_fed \o chunks[1] \o chunks[2]
          /\ rx_chunks' = chunks
          /\ esp_detected' = (Len(chunks) >= 1 \/ esp_detected)
          /\ old_dma_pos' = IF pos = RX_BUFFER_LEN THEN 0 ELSE pos
          /\ uart_rx' = [ uart_rx EXCEPT !.unpolled = 0 ]
    /\ UNCHANGED <<dma_buffer_rx, uart_error_occured, uart_recovering, packet_task,
                   rxframe>>

InitRxSpec ==
    /\ InitStatics
    /\ \E stream \in Streams, plan \in Plans : InitRx(stream, plan)
    /\ watch = [ ops |-> {}, obs |-> {} ]

NextRx ==
    \/ uart_rx_byte
    \/ espif_input_once
    \/ espif_init
    \/ espif_reset_connection

SpecRx == InitRxSpec /\ [][NextRx]_vars

-----------------------------------------------------------------------------
(* SpecInvalid: SpecRx for a message of an unknown type followed by a valid   *)
(* message, in a build with and in a build without _DEBUG                     *)

InvalidStreams ==
    { Frame(9, 0, Payload(n), TRUE) \o m :
        n \in 0..1,
        m \in { Frame(0, REQUIRED_PROTOCOL_VERSION, Payload(1), TRUE),
                 Frame(1, 1, Payload(0), TRUE),
                 Frame(1, 1, Payload(MaxPbufLen + 1), TRUE) } }

InitInvalid ==
    /\ InitStatics
    /\ \E stream \in InvalidStreams, debug \in BOOLEAN :
          InitRx(stream, [ alloc_fail |-> 0, input_fail |-> 0, null_next |-> "garbage",
                           debug |-> debug ])
    /\ watch = [ ops |-> {}, obs |-> {} ]

SpecInvalid == InitInvalid /\ [][NextRx]_vars

-----------------------------------------------------------------------------
(* SpecReset: espif_reset against both sides of the poll. The ESP sends one    *)
(* packet spread over two pbufs, byte by byte as in SpecRx, so that a reset    *)
(* can fall inside the reassembly; the effects of dispatched messages on the   *)
(* flags and the link are those of process_packet, taken at any moment of a    *)
(* poll (a superset of the moments at which the parser dispatches).            *)

ResetStream == Frame(1, 1, Payload(MaxPbufLen + 1), TRUE)

InitReset ==
    /\ InitStatics
    /\ InitRx(ResetStream, [ alloc_fail |-> 0, input_fail |-> 0, null_next |-> "garbage", debug |-> FALSE ])
    /\ watch = [ ops |-> { "espif_reset" }, obs |-> {} ]

NextReset ==
    \/ uart_rx_byte
    \/ espif_input_once
    \/ espif_init
    \/ espif_reset
    \/ espif_reset_connection
    \/ PollBegin
    \/ PollEnd
    \/ \E up \in BOOLEAN, ok \in BOOLEAN, input_ok \in BOOLEAN : process_packet(up, ok, input_ok)

SpecReset == InitReset /\ [][NextReset]_vars

-----------------------------------------------------------------------------
(* SpecUart: SpecRx for one stream with UART line errors. The interrupt may    *)
(* report an error at any time, also inside the recovery, and the              *)
(* re-initialisation of the UART and of the receive DMA may fail.              *)

\* HAL_UART_ErrorCallback for the ESP UART
HAL_UART_ErrorCallback ==
    /\ active_esp_netif.bound
    /\ uart_error_occured' = TRUE
    /\ UNCHANGED <<uart_rx, dma_buffer_rx, old_dma_pos, uart_recovering, packet_task,
                   uart_rx_parser, rx_fed, rx_chunks, esp_detected, rxframe>>

\* espif_input_once with the error flag set: compare_exchange_strong clears
\* the flag and HAL_UART_DeInit stops the UART and its receive DMA
espif_input_once_recover ==
    /\ active_esp_netif.bound
    /\ can_recieve_data(esp_operating_mode)
    /\ ~uart_recovering
    /\ uart_error_occured
    /\ uart_error_occured' = FALSE
    /\ uart_recovering' = TRUE
    /\ uart_rx' = [ uart_rx EXCEPT !.dma = FALSE ]
    /\ rx_chunks' = <<>>
    /\ UNCHANGED <<dma_buffer_rx, old_dma_pos, packet_task, uart_rx_parser, rx_fed,
                   esp_detected, rxframe>>

\* a recovery that reports only a failed HAL_UART_Init
uart_error_after_init_only(flag, init_ok, dma_ok) == flag \/ ~init_ok

\* the error flag at the end of the recovery branch: either failure raises it again
uart_error_after(flag, init_ok, dma_ok) == flag \/ ~init_ok \/ ~dma_ok

\* the rest of the recovery branch: HAL_UART_Init, HAL_UART_Receive_DMA from the
\* start of the buffer, old_dma_pos = 0
espif_input_once_reinit(init_ok, dma_ok) ==
    /\ uart_recovering
    /\ uart_recovering' = FALSE
    /\ uart_error_occured' = uart_error_after(uart_error_occured, init_ok, dma_ok)
    /\ IF init_ok /\ dma_ok
       THEN /\ old_dma_pos' = 0
            /\ uart_rx' = [ uart_rx EXCEPT !.dma = TRUE, !.pos = 0, !.unpolled = 0 ]
       ELSE UNCHANGED <<old_dma_pos, uart_rx>>
    /\ UNCHANGED <<dma_buffer_rx, packet_task, uart_rx_parser, rx_fed, rx_chunks,
                   esp_detected, rxframe>>

\* line noise longer than the receive buffer: no byte of it starts an intron
UartStream == Payload(RX_BUFFER_LEN + 2)

InitUart ==
    /\ InitStatics
    /\ InitRx(UartStream, [ alloc_fail |-> 0, input_fail |-> 0, null_next |-> "garbage", debug |-> FALSE ])
    /\ watch = [ ops |-> {}, obs |-> {} ]

NextUart ==
    \/ uart_rx_byte
    \/ HAL_UART_ErrorCallback
    \/ espif_input_once
    \/ espif_input_once_recover
    \/ \E init_ok, dma_ok \in BOOLEAN : espif_input_once_reinit(init_ok, dma_ok)
    \/ espif_init
    \/ espif_reset
    \/ espif_reset_connection

SpecUart == InitUart /\ [][NextUart]_vars

-----------------------------------------------------------------------------
(* Properties of the bridge *)

DeviceInfoStep(op) == op.op = "process_esp_device_info"

\* C4 (as claimed): a message whose checksum does not match changes none of the
\* mode, the MAC address, the ever-ok latch, ap_count, the scan response slot, the
\* link state and the seen-sync / seen-packet flags.
C4_BadChecksumNotDispatched ==
    [][ (last_op'.op \in RxOps /\ ~last_op'.arg.valid)
        => UNCHANGED <<esp_operating_mode, active_esp_netif, esp_was_ok, scan,
                       ap_info_queue, associated, seen_intron, seen_rx_packet>> ]_vars

\* C7: a device-info message with the required version handled in WaitInit sets the
\* mode to NeedAp and latches ever-ok; the latch is never cleared, and with the latch
\* set esp_fw_state() is Ok in WaitInit, NeedAp, ConnectingAp, Running, Uninitialized.
C7_DeviceInfoOk ==
    /\ [][ (DeviceInfoStep(last_op') /\ last_op'.arg.version = REQUIRED_PROTOCOL_VERSION
            /\ esp_operating_mode = ESPIF_WAIT_INIT)
           => (esp_operating_mode' = ESPIF_NEED_AP /\ esp_was_ok'
               /\ esp_fw_state' = "Ok") ]_vars
    /\ [][ esp_was_ok => esp_was_ok' ]_vars
    /\ [](esp_was_ok /\ esp_operating_mode \in
              { ESPIF_WAIT_INIT, ESPIF_NEED_AP, ESPIF_CONNECTING_AP, ESPIF_RUNNING_MODE,
                ESPIF_UNINITIALIZED_MODE }
          => esp_fw_state = "Ok")

\* C7 witness: the latch is set and the bridge was reset since: it waits for the
\* device again, nothing detected, and the firmware state is still Ok
C7_Witness ==
    /\ esp_was_ok
    /\ esp_operating_mode = ESPIF_WAIT_INIT
    /\ ~esp_detected
    /\ esp_fw_state = "Ok"

\* the handlers that, as the code stands, take the mode out of WrongFirmware
LeavesWrongFw(op) ==
    \/ op.op \in { "espif_notify_flash_result", "espif_reset_connection" }
    \/ op.op = "scan_start" /\ op.ret = ERR_OK
    \/ op.op = "process_packet" /\ op.arg.valid

C9_ScanRestoresMode ==
    /\ [][ Started(last_op')
           => (esp_operating_mode' = ESPIF_SCANNING_MODE /\ scan'.is_running
               /\ scan'.ap_count = 0) ]_vars
    /\ [][ (last_op'.op = "scan_stop" /\ last_op'.ret = ERR_OK /\ obs.clean)
           => (esp_operating_mode' = obs.start_mode /\ ~scan'.is_running) ]_vars

\* C10 (as claimed): a tick in Running with no valid message since the previous tick
\* returns false and sends one zero-length PACKET.
KeepaliveSent(op) ==
    /\ Len(op.sent) = 1
    /\ op.sent[1].type = PACKET_V2
    /\ op.sent[1].nseg = 0

C10_TickKeepalive ==
    [][ (last_op'.op = "espif_tick" /\ esp_operating_mode = ESPIF_RUNNING_MODE
         /\ ~obs.rx_since_tick)
        => (last_op'.ret = FALSE /\ KeepaliveSent(last_op')) ]_vars

\* C10 (amended): a tick in Running with the link up and no valid message since the
\* previous tick returns false and issues one zero-length PACKET send (one frame on
\* the wire unless the transport rejects it); with the link down it returns false and
\* sends nothing.
C10_TickKeepaliveLinkUp ==
    /\ [][ (last_op'.op = "espif_tick" /\ esp_operating_mode = ESPIF_RUNNING_MODE
            /\ associated /\ ~obs.rx_since_tick)
           => (last_op'.ret = FALSE /\ KeepaliveSent(last_op')) ]_vars
    /\ [][ (last_op'.op = "espif_tick" /\ ~associated)
           => (last_op'.ret = FALSE /\ last_op'.sent = NoFrame) ]_vars

\* C10 witness: the third tick found the link up in Running and nothing received, and
\* sent the keepalive
C10_Witness ==
    /\ last_op.op = "espif_tick"
    /\ last_op.ret = FALSE
    /\ KeepaliveSent(last_op)
    /\ esp_operating_mode = ESPIF_RUNNING_MODE
    /\ associated
    /\ init_countdown = INIT_COUNTDOWN - 3

\* C6 (as claimed): after a successful join_ap the intron in tx_message is the one the
\* CLIENTCONFIG frame carried, every frame sent afterwards carries it, it keeps the
\* first two bytes, and its four random bytes differ from the previous ones.
IntronTail(intron) == SubSeq(intron, 3, Len(intron))
IntronHead(intron) == SubSeq(intron, 1, 2)

C6_JoinIntronDiffers ==
    /\ [](obs.cfg_intron # NoIntron
          => /\ tx_intron = obs.cfg_intron
             /\ (obs.wire_intron # NoIntron => obs.wire_intron = obs.cfg_intron))
    /\ [][ Joined(last_op')
           => /\ IntronHead(tx_intron') = IntronHead(tx_intron)
              /\ IntronTail(tx_intron') # IntronTail(tx_intron) ]_vars

\* C6 (amended): after a successful join_ap the intron in tx_message is the one the
\* CLIENTCONFIG frame carried (the previous first two bytes, then the four bytes
\* drawn from rand_u(), which may equal the previous ones), and every frame sent
\* afterwards, until the next successful join_ap or accepted reset, carries it.
C6_JoinIntron ==
    /\ [](obs.cfg_intron # NoIntron
          => /\ tx_intron = obs.cfg_intron
             /\ (obs.wire_intron # NoIntron => obs.wire_intron = obs.cfg_intron))
    /\ [][ Joined(last_op')
           => /\ IntronHead(tx_intron') = IntronHead(tx_intron)
              /\ tx_intron' = last_op'.arg.intron
              /\ Sent(last_op') /\ last_op'.sent[1].intron = tx_intron ]_vars

\* C6 witness: a frame was sent after a successful join_ap changed the intron
C6_Witness ==
    /\ obs.cfg_intron # NoIntron
    /\ obs.cfg_intron # DEFAULT_INTRON
    /\ obs.wire_intron = obs.cfg_intron

-----------------------------------------------------------------------------
(* Properties of the transmit channel *)

InTxBuffer(s) == tx_task[s].pc \in { "issue", "acquire", "withdraw" }

\* C1: espif_tx_buffer issues a DMA transmission only when no earlier claim and
\* no earlier transfer is outstanding (the slot holds the claim this call just
\* put in, nobody released it yet, the semaphore is empty), the two asserts of
\* espif_tx_buffer never fail, and when espif_tx_buffer returns its claim was
\* released exactly once: by the interrupt when the transport took the chunk, by
\* the issuing call when it refused; outside espif_tx_buffer no claim is left.
C1_TxSingleFlight ==
    /\ tx_assert_failed = {}
    /\ \A s \in Senders :
          /\ tx_task[s].pc = "issue" =>
                /\ uart_dma = NoDma
                /\ tx_semaphore_active
                /\ tx_semaphore = 0
                /\ tx_released = <<>>
          /\ tx_task[s].pc = "ret" =>
                /\ tx_released = IF tx_task[s].result = ERR_OK THEN << "isr" >>
                                 ELSE << "caller" >>
                /\ ~tx_semaphore_active
                /\ tx_semaphore = 0
                /\ uart_dma = NoDma
    /\ (\A s \in Senders : ~InTxBuffer(s)) => ~tx_semaphore_active /\ uart_dma = NoDma
    /\ Cardinality({ s \in Senders : InTxBuffer(s) }) <= 1

\* a claim released by the issuing call after an earlier one was released by the
\* interrupt, while another task waits for the lock
C1_Witness ==
    /\ wire # <<>>
    /\ \E s \in Senders :
          /\ tx_task[s].pc = "ret"
          /\ tx_task[s].result # ERR_OK
          /\ tx_released = << "caller" >>
    /\ \E s \in Senders : tx_task[s].pc = "lock"

\* C2: the chunks of one message are contiguous on the wire (every pbuf chunk
\* directly follows the previous chunk of the same message), every prelude on
\* the wire describes the message of the task that sent it, at the start and at
\* the end of its transfer, and tx_message is not rewritten during the transfer.
C2_MessageContiguous ==
    /\ \A k \in 1..Len(wire) :
          IF wire[k].idx = 0
          THEN /\ wire[k].hdr_begin = [ owner |-> wire[k].owner, nseg |-> wire[k].nseg ]
               /\ wire[k].hdr_end = wire[k].hdr_begin
          ELSE /\ k > 1
               /\ wire[k - 1].owner = wire[k].owner
               /\ wire[k - 1].idx = wire[k].idx - 1
               /\ wire[k - 1].nseg = wire[k].nseg
    /\ uart_dma # NoDma /\ uart_dma[1].idx = 0 => tx_header = uart_dma[1].hdr_begin

\* a whole message of several pbufs on the wire, directly followed by the prelude
\* of another task that waited for the lock meanwhile
C2_Witness ==
    \E k \in 1..(Len(wire) - 1) :
        /\ wire[k].idx = wire[k].nseg
        /\ wire[k].nseg >= 2
        /\ wire[k + 1].owner # wire[k].owner
        /\ wire[k + 1].idx = 0

-----------------------------------------------------------------------------
(* Properties of get_ap_info *)

\* C5 (as claimed): one call of get_ap_info issues at most 4 SCAN_AP_GET requests,
\* and a call that obtained no reply returns the error of its most recent
\* attempt (the transport error or the timeout).
C5_ApInfoRequests ==
    /\ ap_info_task.requests <= 4
    /\ ap_info_task.pc = "done" /\ ap_info_task.ret # ERR_OK =>
          /\ ap_info_task.attempts # <<>>
          /\ ap_info_task.ret = ap_info_task.attempts[Len(ap_info_task.attempts)]

-----------------------------------------------------------------------------
(* SpecPacket: the packet handlers of UartRxParser, statement by statement, in *)
(* the polling task, and espif_reset in a caller task. The parser calls        *)
(* start_packet after the header of a PACKET, update_packet for its payload,   *)
(* process_packet after its checksum and then reset_packet; espif_reset calls  *)
(* reset_packet through uart_rx_parser.reset(). Nothing synchronises the two   *)
(* tasks. A pbuf chain is its index in packet_task.heap, 0 is nullptr.         *)

PacketTasks == { "poll", "reset" }

\* the number of packets of a behaviour
MaxPackets == 2

\* where a task is when it is outside reset_packet
PacketIdle(who) == IF who = "poll" THEN "intron" ELSE "idle"

\* a chain pbuf_alloc_rx returned
NewChain == [ frees |-> 0, handed |-> FALSE, stray |-> FALSE, lost |-> FALSE ]

\* everything the packet handlers leave alone
packetframe == <<init_countdown, esp_was_ok, scan, ap_info_queue,
                 poll_active, last_op, obs, watch, txvars, scanvars, uart_rx,
                 dma_buffer_rx, old_dma_pos, uart_error_occured, uart_recovering,
                 uart_rx_parser, rx_fed, rx_chunks>>

\* UartRxParser::start_packet: packet_buff_head is overwritten
start_packet_call(alloc_ok) ==
    /\ active_esp_netif.bound
    /\ can_recieve_data(esp_operating_mode)
    /\ packet_task.pc.poll = "intron"
    /\ alloc_ok => Len(packet_task.heap) < MaxPackets
    /\ LET old == packet_task.packet_buff_head
           kept == IF old # 0
                   THEN [ packet_task.heap EXCEPT ![old].lost =
                              packet_task.heap[old].frees = 0 /\ ~packet_task.heap[old].handed ]
                   ELSE packet_task.heap
           head == IF alloc_ok THEN Len(kept) + 1 ELSE 0
       IN packet_task' =
              [ packet_task EXCEPT
                  !.heap = IF alloc_ok THEN Append(kept, NewChain) ELSE kept,
                  !.packet_buff_head = head,
                  !.packet_buff_curr = IF alloc_ok THEN head ELSE @,
                  !.pc.poll = IF alloc_ok THEN "data" ELSE "intron" ]
    /\ UNCHANGED <<esp_operating_mode, associated, seen_intron, seen_rx_packet,
                   esp_detected, tx_intron,
                   active_esp_netif, packetframe>>

\* UartRxParser::update_packet for the whole payload: memcpy into the pbufs
\* packet_buff_curr points to, which ends as the next of the last pbuf
update_packet_call ==
    /\ packet_task.pc.poll = "data"
    /\ LET curr == packet_task.packet_buff_curr IN
       packet_task' =
           IF curr = 0 THEN [ packet_task EXCEPT !.pc.poll = "fault" ]
           ELSE [ packet_task EXCEPT
                    !.heap[curr].stray = @ \/ packet_task.heap[curr].frees > 0
                                           \/ packet_task.heap[curr].handed,
                    !.packet_buff_curr = 0,
                    !.pc.poll = "checksum" ]
    /\ UNCHANGED <<esp_operating_mode, associated, seen_intron, seen_rx_packet,
                   esp_detected, tx_intron,
                   active_esp_netif, packetframe>>

\* UartRxParser::process_packet up to the return of netif->input
process_packet_input(up, checksum_valid, input_ok) ==
    /\ packet_task.pc.poll = "checksum"
    /\ seen_intron' = validate_checksum(checksum_valid)
    /\ LET lc == process_link_change(up, esp_operating_mode, scan.is_running)
           head == packet_task.packet_buff_head IN
       /\ esp_operating_mode' = IF checksum_valid THEN lc[1] ELSE esp_operating_mode
       /\ associated' = IF checksum_valid THEN lc[2] ELSE associated
       /\ packet_task' =
              IF ~checksum_valid THEN [ packet_task EXCEPT !.pc.poll = "reset_packet" ]
              ELSE IF head = 0 THEN [ packet_task EXCEPT !.pc.poll = "fault" ]
              ELSE IF input_ok
              THEN [ packet_task EXCEPT
                       !.heap[head].handed = TRUE,
                       !.heap[head].stray = @ \/ packet_task.heap[head].frees > 0,
                       !.pc.poll = "accepted" ]
              ELSE [ packet_task EXCEPT
                       !.heap[head].stray = @ \/ packet_task.heap[head].frees > 0,
                       !.pc.poll = "reset_packet" ]
    /\ active_esp_netif' = netif_set_link(active_esp_netif, associated, associated')
    /\ UNCHANGED <<seen_rx_packet, esp_detected, tx_intron, packetframe>>

\* UartRxParser::process_packet after netif->input returned ERR_OK
process_packet_accepted ==
    /\ packet_task.pc.poll = "accepted"
    /\ seen_rx_packet' = TRUE
    /\ packet_task' = [ packet_task EXCEPT !.packet_buff_head = 0,
                                           !.pc.poll = "reset_packet" ]
    /\ UNCHANGED <<esp_operating_mode, associated, seen_intron, esp_detected, tx_intron,
                   active_esp_netif, packetframe>>

\* espif_reset up to uart_rx_parser.reset()
espif_reset_call ==
    /\ active_esp_netif.bound
    /\ can_recieve_data(esp_operating_mode)
    /\ packet_task.pc.reset = "idle"
    /\ tx_intron' = reset_intron(tx_intron)
    /\ associated' = process_link_change(FALSE, esp_operating_mode, scan.is_running)[2]
    /\ esp_detected' = FALSE
    /\ esp_operating_mode' = ESPIF_WAIT_INIT
    /\ packet_task' = [ packet_task EXCEPT !.pc.reset = "reset_packet" ]
    /\ active_esp_netif' = netif_set_link(active_esp_netif, associated, associated')
    /\ UNCHANGED <<seen_intron, seen_rx_packet, packetframe>>

\* UartRxParser::reset_packet: if (packet_buff_head != nullptr)
reset_packet_test(who) ==
    /\ packet_task.pc[who] = "reset_packet"
    /\ packet_task' =
           [ packet_task EXCEPT
               !.ptr[who] = packet_task.packet_buff_head,
               !.pc[who] = IF packet_task.packet_buff_head # 0 THEN "pbuf_free"
                           ELSE IF who = "reset" THEN "resync"
                           ELSE PacketIdle(who) ]
    /\ UNCHANGED <<esp_operating_mode, associated, seen_intron, seen_rx_packet,
                   esp_detected, tx_intron,
                   active_esp_netif, packetframe>>

\* UartRxParser::reset_packet: pbuf_free(packet_buff_head), with the pointer
\* the test read or with the one the member holds now
reset_packet_free(who, reread) ==
    /\ packet_task.pc[who] = "pbuf_free"
    /\ LET chain == IF reread THEN packet_task.packet_buff_head ELSE packet_task.ptr[who] IN
       packet_task' =
           IF chain = 0 THEN [ packet_task EXCEPT !.pc[who] = "clear" ]
           ELSE [ packet_task EXCEPT !.heap[chain].frees = @ + 1,
                                     !.pc[who] = "clear" ]
    /\ UNCHANGED <<esp_operating_mode, associated, seen_intron, seen_rx_packet,
                   esp_detected, tx_intron,
                   active_esp_netif, packetframe>>

\* UartRxParser::reset_packet: packet_buff_head = nullptr; packet_buff_curr = nullptr
reset_packet_clear(who) ==
    /\ packet_task.pc[who] = "clear"
    /\ packet_task' = [ packet_task EXCEPT !.packet_buff_head = 0,
                                           !.packet_buff_curr = 0,
                                           !.pc[who] = IF who = "reset" THEN "resync"
                                                       ELSE PacketIdle(who) ]
    /\ UNCHANGED <<esp_operating_mode, associated, seen_intron, seen_rx_packet,
                   esp_detected, tx_intron,
                   active_esp_netif, packetframe>>

\* RxParserBase::reset after reset_packet: a parser between two handlers of a
\* packet searches for the intron again
reset_resync ==
    /\ packet_task.pc.reset = "resync"
    /\ packet_task' =
           [ packet_task EXCEPT
               !.pc.reset = "idle",
               !.pc.poll = IF @ \in { "data", "checksum" } THEN "intron" ELSE @ ]
    /\ UNCHANGED <<esp_operating_mode, associated, seen_intron, seen_rx_packet,
                   esp_detected, tx_intron,
                   active_esp_netif, packetframe>>

InitPacket ==
    /\ InitBridge
    /\ watch = [ ops |-> {}, obs |-> {} ]

NextPacket ==
    \/ espif_init
    \/ espif_reset_connection
    \/ \E alloc_ok \in BOOLEAN : start_packet_call(alloc_ok)
    \/ update_packet_call
    \/ \E up, checksum_valid, input_ok \in BOOLEAN :
           process_packet_input(up, checksum_valid, input_ok)
    \/ process_packet_accepted
    \/ espif_reset_call
    \/ \E who \in PacketTasks : reset_packet_test(who)
    \/ \E who \in PacketTasks, reread \in BOOLEAN : reset_packet_free(who, reread)
    \/ \E who \in PacketTasks : reset_packet_clear(who)
    \/ reset_resync

SpecPacket == InitPacket /\ [][NextPacket]_vars

-----------------------------------------------------------------------------
(* Properties of the receive path *)

\* C3: after any sequence of polls, whatever chunks they fed (cut inside the
\* intron, the header, the payload, the checksum, or in two parts at the end of
\* the ring buffer), the parser is in the state, has dispatched the messages and
\* has filled the packet buffers that feeding the concatenation of those chunks
\* as a single chunk gives.
C3_ChunkingEquivalence ==
    uart_rx_parser = process_data(InitParser, rx_fed, uart_rx.plan)

\* a poll fed two parts at the end of the ring buffer, the second one shorter
\* than the checksum, and with it completed a packet spread over two pbufs that
\* was handed up: the message was cut before that poll and inside its checksum
C3_Witness ==
    /\ Len(rx_chunks) = 2
    /\ Len(rx_chunks[2]) < CHECKSUM_LEN
    /\ uart_rx_parser.state = "Intron"
    /\ uart_rx_parser.matched = 0
    /\ uart_rx_parser.dispatched # <<>>
    /\ LET last == uart_rx_parser.dispatched[Len(uart_rx_parser.dispatched)] IN
       /\ last.type = PACKET_V2
       /\ last.accepted
       /\ Len(last.payload) >= 2

-----------------------------------------------------------------------------
(* Properties of the firmware state report *)

\* C11: no step clears the ever-ok latch esp_was_ok, and in every state in which
\* it is set, whatever resets, link drops, scans, flash results and messages
\* came after, esp_fw_state() is neither NoFirmware nor NoEsp.
C11_LatchHidesNoEsp ==
    /\ [](esp_was_ok => esp_fw_state \notin { "NoFirmware", "NoEsp" })
    /\ [][esp_was_ok => esp_was_ok']_vars

\* the latch is set, a later reset has put the mode back to WaitInit with the
\* ESP undetected (only espif_reset clears esp_detected, which the message that
\* set the latch had set) and the init countdown has run out: without the latch
\* the report would be NoEsp
C11_Witness ==
    /\ esp_was_ok
    /\ esp_operating_mode = ESPIF_WAIT_INIT
    /\ ~esp_detected
    /\ init_countdown = 0

-----------------------------------------------------------------------------
(* Properties of the packet output *)

\* C12: low_level_output called in Uninitialized, Scanning, WrongFirmware,
\* FlashErrorNotConnected or FlashErrorOther returns ERR_IF without entering
\* espif_tx_raw (the only place that takes uart_write_mutex and transmits);
\* called in WaitInit, NeedAp, ConnectingAp or Running it issues exactly one
\* PACKET_V2 frame carrying the whole chain and returns ERR_OK if the transport
\* accepted every chunk, an error otherwise.
C12_OutputGuard ==
    [][ last_op'.op = "low_level_output" =>
          IF esp_operating_mode \in { ESPIF_UNINITIALIZED_MODE, ESPIF_SCANNING_MODE,
                                      ESPIF_WRONG_FW, ESPIF_FLASHING_ERROR_NOT_CONNECTED,
                                      ESPIF_FLASHING_ERROR_OTHER }
          THEN /\ last_op'.ret # ERR_OK
               /\ last_op'.sent = NoFrame
          ELSE /\ Len(last_op'.sent) = 1
               /\ last_op'.sent[1].type = PACKET_V2
               /\ last_op'.sent[1].nseg \in 1..MaxSeg
               /\ (last_op'.ret = ERR_OK) <=> (last_op'.sent[1].acc = last_op'.sent[1].nseg + 1)
               /\ (last_op'.ret # ERR_OK) <=> (last_op'.sent[1].err # ERR_OK) ]_vars

\* low_level_output was refused during a scan
C12_Witness ==
    /\ last_op.op = "low_level_output"
    /\ last_op.ret = ERR_IF
    /\ last_op.sent = NoFrame
    /\ esp_operating_mode = ESPIF_SCANNING_MODE

-----------------------------------------------------------------------------
(* Properties of espif_reset *)

ResetStep ==
    /\ last_op'.op = "espif_reset"
    /\ UNCHANGED <<uart_rx, dma_buffer_rx, old_dma_pos, rx_chunks>>

-----------------------------------------------------------------------------
(* Properties of espif_notify_flash_result *)

\* C15: notify_flash_result(result) stores WaitInit for success,
\* FlashErrorNotConnected for not_connected and FlashErrorOther for failure,
\* whatever the mode was, and leaves the link state, the scan session, the
\* intron, the latches, the flags, the countdown, the scan reply slot and the
\* interface as they were.
C15_FlashResult ==
    [][ last_op'.op = "espif_notify_flash_result" =>
          /\ last_op'.arg.result = "success" => esp_operating_mode' = ESPIF_WAIT_INIT
          /\ last_op'.arg.result = "not_connected" =>
                 esp_operating_mode' = ESPIF_FLASHING_ERROR_NOT_CONNECTED
          /\ last_op'.arg.result = "failure" =>
                 esp_operating_mode' = ESPIF_FLASHING_ERROR_OTHER
          /\ last_op'.arg.result \in FlashResult
          /\ UNCHANGED <<associated, scan, tx_intron, esp_was_ok, esp_detected,
                         seen_intron, seen_rx_packet, init_countdown, ap_info_queue,
                         active_esp_netif, poll_active>> ]_vars

\* a failed flash was notified while the link was up, a scan session was active
\* and the latch was set: all three are as they were
C15_Witness ==
    /\ last_op.op = "espif_notify_flash_result"
    /\ last_op.arg.result = "failure"
    /\ esp_operating_mode = ESPIF_FLASHING_ERROR_OTHER
    /\ associated
    /\ scan.is_running
    /\ esp_was_ok

-----------------------------------------------------------------------------
(* Properties of join_ap *)

\* C16: join_ap called in Uninitialized, Scanning, WrongFirmware,
\* FlashErrorNotConnected or FlashErrorOther, or while scan.is_running is true,
\* returns an error without sending a frame and leaves the intron, the mode and
\* every other variable of the bridge as they were.
C16_JoinRefused ==
    [][ (/\ last_op'.op = "espif_join_ap"
         /\ \/ esp_operating_mode \in { ESPIF_UNINITIALIZED_MODE, ESPIF_SCANNING_MODE,
                                         ESPIF_WRONG_FW,
                                         ESPIF_FLASHING_ERROR_NOT_CONNECTED,
                                         ESPIF_FLASHING_ERROR_OTHER }
            \/ scan.is_running)
        => /\ last_op'.ret # ERR_OK
           /\ last_op'.sent = NoFrame
           /\ UNCHANGED <<tx_intron, esp_operating_mode, associated, scan, seen_intron,
                          seen_rx_packet, esp_detected, esp_was_ok, init_countdown,
                          ap_info_queue, active_esp_netif>> ]_vars

\* join_ap was refused in an active mode because a scan session is active
C16_Witness ==
    /\ last_op.op = "espif_join_ap"
    /\ last_op.ret = ERR_IF
    /\ last_op.sent = NoFrame
    /\ scan.is_running
    /\ esp_operating_mode = ESPIF_NEED_AP

-----------------------------------------------------------------------------
(* Properties of the scan session *)

\* C17 (as claimed): scan stop() with no scan running returns an error, sends
\* nothing and changes nothing; when the SCAN_STOP transmission fails,
\* is_running stays true and the mode is unchanged; when it succeeds, is_running
\* becomes false and the mode becomes the saved pre-scan mode if it was
\* Scanning and stays what it was otherwise.
C17_ScanStop ==
    [][ last_op'.op = "scan_stop" =>
          IF ~scan.is_running
          THEN /\ last_op'.ret # ERR_OK
               /\ last_op'.sent = NoFrame
               /\ UNCHANGED <<scan, esp_operating_mode, associated, tx_intron,
                              seen_intron, seen_rx_packet, esp_detected, esp_was_ok,
                              init_countdown, ap_info_queue, active_esp_netif>>
          ELSE IF last_op'.ret # ERR_OK
          THEN /\ scan'.is_running
               /\ UNCHANGED esp_operating_mode
          ELSE /\ ~scan'.is_running
               /\ esp_operating_mode' =
                      IF esp_operating_mode = ESPIF_SCANNING_MODE
                      THEN scan.prescan_op_mode ELSE esp_operating_mode ]_vars

\* C18 (as claimed): a scan start() whose SCAN_START transmission fails leaves
\* is_running at the value it had before the call, also when a scan session was
\* already running, and leaves the mode, the saved pre-scan mode and ap_count
\* unchanged.
C18_StartRollback ==
    [][ (last_op'.op = "scan_start" /\ last_op'.ret # ERR_OK) =>
          /\ scan'.is_running = scan.is_running
          /\ scan'.prescan_op_mode = scan.prescan_op_mode
          /\ scan'.ap_count = scan.ap_count
          /\ UNCHANGED esp_operating_mode ]_vars

-----------------------------------------------------------------------------
(* Properties of a rejected transmission *)

\* C19: when the transport rejects the prelude (seg = 0) or the k-th pbuf of a
\* message, the task does not wait for the completion signal (it withdraws its
\* claim instead of acquiring the semaphore) and nothing is handed to the DMA;
\* from there it only returns from espif_tx_buffer and then from espif_tx_raw,
\* with the rejected chunk as the last one it issued and the transport's error
\* as the result.
C19_RejectReturns ==
    [][ \A s \in Senders :
          /\ (tx_task[s].pc = "issue" /\ tx_task'[s].result # ERR_OK) =>
                 /\ tx_task'[s] = [ tx_task[s] EXCEPT !.pc = "withdraw",
                                                     !.result = HAL_ERROR ]
                 /\ UNCHANGED <<uart_dma, wire, tx_semaphore>>
          /\ (tx_task[s].pc = "withdraw" /\ tx_task'[s] # tx_task[s]) =>
                 /\ tx_task[s].result # ERR_OK
                 /\ tx_task'[s] = [ tx_task[s] EXCEPT !.pc = "ret" ]
                 /\ UNCHANGED <<uart_dma, wire, tx_semaphore>>
          /\ (tx_task[s].pc = "ret" /\ tx_task[s].result # ERR_OK
                 /\ tx_task'[s] # tx_task[s]) =>
                 /\ tx_task'[s] = [ tx_task[s] EXCEPT !.pc = "idle" ]
                 /\ uart_write_mutex = s
                 /\ uart_write_mutex' = None ]_vars

\* a task is back from espif_tx_raw with the transport's error: it had a chain
\* of two pbufs, the first pbuf was rejected, and only its prelude is on the wire
C19_Witness ==
    \E s \in Senders :
       /\ tx_task[s] = [ pc |-> "idle", nseg |-> 2, seg |-> 1, result |-> HAL_ERROR ]
       /\ Len(wire) = 1
       /\ wire[1].owner = s
       /\ wire[1].idx = 0

-----------------------------------------------------------------------------
(* Properties of the intron commit *)

\* C20 (as claimed): a send and the intron commit never race: every prelude
\* that comes on the wire after the last chunk of the CLIENTCONFIG frame carries
\* the new intron that frame announced.
C20_CommitNoRace ==
    \A i, j \in 1..Len(wire) :
        (/\ i < j
         /\ wire[i].owner = Joiner
         /\ wire[i].idx = wire[i].nseg
         /\ wire[j].idx = 0)
        => wire[j].intron = join_task.new_intron

\* C21: a join_ap that returns an error (scan session active, pbuf_alloc
\* failed, the transport rejected the prelude or the payload) leaves the intron
\* and the mode as they were; a join_ap that returns success had every chunk of
\* its CLIENTCONFIG frame accepted, and leaves the mode ConnectingAp and the
\* intron it sent as the active one.
C21_JoinFailureFrame ==
    [][ last_op'.op = "espif_join_ap" =>
          IF last_op'.ret # ERR_OK
          THEN UNCHANGED <<tx_intron, esp_operating_mode>>
          ELSE /\ Len(last_op'.sent) = 1
               /\ last_op'.sent[1].type = CLIENTCONFIG_V2
               /\ last_op'.sent[1].acc = last_op'.sent[1].nseg + 1
               /\ esp_operating_mode' = ESPIF_CONNECTING_AP
               /\ tx_intron' = last_op'.arg.intron ]_vars

\* join_ap failed because the transport took the prelude and rejected the
\* payload: the intron is not the one the frame announced, the mode is NeedAp
C21_Witness ==
    /\ last_op.op = "espif_join_ap"
    /\ last_op.ret = HAL_ERROR
    /\ last_op.sent # NoFrame
    /\ last_op.sent[1].acc = 1
    /\ tx_intron # last_op.arg.intron
    /\ esp_operating_mode = ESPIF_NEED_AP

-----------------------------------------------------------------------------
(* Properties of a duplicate device info *)

\* C22: a device-info message handled in a mode other than WaitInit leaves the
\* mode and the ever-ok latch as they were, whatever version it reports; a
\* device-info message changes the mode only from WaitInit, to NeedAp or to
\* WrongFirmware, so a second one that follows it finds the mode changed.
C22_DuplicateDeviceInfo ==
    /\ [][ (DeviceInfoStep(last_op') /\ esp_operating_mode # ESPIF_WAIT_INIT)
           => UNCHANGED <<esp_operating_mode, esp_was_ok>> ]_vars
    /\ [][ (DeviceInfoStep(last_op') /\ esp_operating_mode = ESPIF_WAIT_INIT)
           => esp_operating_mode' \in { ESPIF_NEED_AP, ESPIF_WRONG_FW } ]_vars

\* a device info reporting another version was handled after the first one had
\* been applied and the link had come up: the mode is still Running
C22_Witness ==
    /\ DeviceInfoStep(last_op)
    /\ last_op.arg.version # REQUIRED_PROTOCOL_VERSION
    /\ esp_operating_mode = ESPIF_RUNNING_MODE
    /\ esp_was_ok

-----------------------------------------------------------------------------
(* Properties of the scan reply slot *)

\* C23 (as claimed): a get_ap_info(index) that returns success took from the
\* slot a reply whose embedded index is the requested one, whatever calls and
\* replies came before.
C23_NoStaleReply ==
    [][ (/\ ap_info_task.pc = "wait"
         /\ ap_info_task'.pc = "done"
         /\ ap_info_task'.ret = ERR_OK)
        => (/\ ap_info_queue # <<>>
            /\ Head(ap_info_queue).ap_index = ap_info_task.index) ]_vars


\* a step of UartRxParser::process_scan_ap_info in SpecApReply
ApReplyStep ==
    /\ last_op'.op = "process_scan_ap_info"
    /\ UNCHANGED ap_info_task

\* C24: the reply slot never holds more than one reply, a reply that arrives
\* while the slot is full is dropped (the slot keeps what it had), and the
\* handler of a matching reply can always run to its end while a poll is
\* active: the polling context is never blocked by the slot.
C24_SlotNeverBlocks ==
    /\ [](Len(ap_info_queue) <= 1)
    /\ [][ (ApReplyStep /\ Len(ap_info_queue) = 1)
            => ap_info_queue' = ap_info_queue ]_vars
    /\ [](poll_active => ENABLED process_scan_ap_info(scan.ap_index, TRUE))

\* a matching, valid reply was processed while the slot held the reply of an
\* earlier index and nobody was receiving: it is not in the slot
C24_Witness ==
    /\ last_op.op = "process_scan_ap_info"
    /\ last_op.arg.valid
    /\ last_op.arg.index = scan.ap_index
    /\ ap_info_task.pc # "wait"
    /\ Len(ap_info_queue) = 1
    /\ Head(ap_info_queue).ap_index # last_op.arg.index

-----------------------------------------------------------------------------
(* Properties of the ring buffer drain *)

\* the bytes the receive DMA wrote since the last draining poll
Undrained == SubSeq(uart_rx.stream, uart_rx.sent - uart_rx.unpolled + 1, uart_rx.sent)

\* a poll that found the DMA away from the saved cursor
DrainStep == old_dma_pos' # old_dma_pos

\* C25: while the DMA stays less than one buffer ahead of the poll, the bytes
\* fed to the parser so far are the bytes the DMA had written at the last
\* draining poll, each once and in order; the saved cursor stays inside the
\* buffer; and a draining poll feeds the bytes from the saved cursor to the DMA
\* position in one chunk, or in two (up to the buffer end, then from its
\* start) when the position is behind the cursor, no chunk being empty or
\* reaching over the buffer end.
C25_DrainExactlyOnce ==
    /\ [](old_dma_pos \in 0..(RX_BUFFER_LEN - 1))
    /\ [](rx_fed = SubSeq(uart_rx.stream, 1, uart_rx.sent - uart_rx.unpolled))
    /\ [][ DrainStep =>
            LET chunks == rx_chunks'
                wraps == uart_rx.pos < old_dma_pos IN
            /\ old_dma_pos' = uart_rx.pos
            /\ uart_rx'.unpolled = 0
            /\ Len(chunks) = (IF wraps /\ uart_rx.pos > 0 THEN 2 ELSE 1)
            /\ \A i \in 1..Len(chunks) : Len(chunks[i]) >= 1
            /\ Len(chunks[1]) = (IF wraps THEN RX_BUFFER_LEN ELSE uart_rx.pos) - old_dma_pos
            /\ Len(chunks) = 2 => Len(chunks[2]) = uart_rx.pos
            /\ Undrained = (IF Len(chunks) = 2 THEN chunks[1] \o chunks[2]
                            ELSE chunks[1]) ]_vars

\* the last poll fed two chunks across the buffer end and with them everything
\* the DMA has written, which is more than one buffer
C25_Witness ==
    /\ Len(rx_chunks) = 2
    /\ uart_rx.unpolled = 0
    /\ uart_rx.sent > RX_BUFFER_LEN
    /\ rx_fed = SubSeq(uart_rx.stream, 1, uart_rx.sent)
    /\ old_dma_pos = uart_rx.sent % RX_BUFFER_LEN

-----------------------------------------------------------------------------
(* Properties of the UART error recovery *)

\* espif_input_once enters its recovery branch
RecoverStep == ~uart_recovering /\ uart_recovering'

\* espif_input_once leaves its recovery branch
ReinitStep == uart_recovering /\ ~uart_recovering'

\* C26: the error flag is cleared only by a poll that enters the recovery; a
\* poll that finds the flag set feeds no byte and keeps the cursor; the
\* recovery ends either with the receive DMA restarted and the cursor at 0,
\* the flag as the interrupt left it meanwhile, or with the flag raised again
\* and the cursor kept; the receive DMA is never left stopped without a
\* recovery running or pending; and received bytes leave the ring buffer
\* unparsed only by a recovery, every other drain feeding them to the parser.
C26_UartRecovery ==
    /\ [][ (uart_error_occured /\ ~uart_error_occured') => RecoverStep ]_vars
    /\ [][ (uart_error_occured /\ ~uart_recovering)
            => (/\ Len(rx_fed') <= Len(rx_fed)
                /\ old_dma_pos' = old_dma_pos
                /\ (RecoverStep => rx_fed' = rx_fed /\ uart_rx_parser' = uart_rx_parser)) ]_vars
    /\ [][ ReinitStep
            => IF uart_rx'.dma
               THEN /\ old_dma_pos' = 0
                    /\ uart_rx'.pos = 0
                    /\ uart_error_occured' = uart_error_occured
               ELSE /\ uart_error_occured'
                    /\ old_dma_pos' = old_dma_pos ]_vars
    /\ [](~uart_rx.dma => (uart_recovering \/ uart_error_occured))
    /\ [][ uart_rx'.unpolled < uart_rx.unpolled
            => \/ ReinitStep
               \/ /\ rx_fed' = rx_fed \o Undrained
                  /\ uart_rx'.unpolled = 0 ]_vars

\* a recovery restarted the receive DMA and discarded bytes that had been
\* received but not fed, and an error is pending again
C26_Witness ==
    /\ ~uart_recovering
    /\ uart_rx.dma
    /\ uart_error_occured
    /\ old_dma_pos = 0
    /\ rx_fed # <<>>
    /\ Len(rx_fed) + uart_rx.unpolled < uart_rx.sent

-----------------------------------------------------------------------------
(* Properties of the packet buffers *)

\* the chains that were neither accepted by netif->input nor freed
ChainsOpen ==
    { i \in 1..Len(packet_task.heap) :
        ~packet_task.heap[i].handed /\ packet_task.heap[i].frees = 0 }

\* C27 (as claimed): a chain is never freed twice, never freed after the input
\* callback accepted it, never written or handed up after its end, never lost;
\* at most one chain is open at a time, and with both tasks outside the packet
\* handlers and no packet under reassembly every chain has ended.
C27_ChainLifecycle ==
    /\ \A i \in 1..Len(packet_task.heap) :
          LET c == packet_task.heap[i] IN
          /\ c.frees <= 1
          /\ ~(c.handed /\ c.frees >= 1)
          /\ ~c.stray
          /\ ~c.lost
    /\ Cardinality(ChainsOpen) <= 1
    /\ (packet_task.pc = NoPacketTask.pc) => ChainsOpen = {}

-----------------------------------------------------------------------------
(* Properties of termination *)

\* C28: with a fair scheduler and one interrupt for every accepted transfer,
\* every task inside espif_tx_raw leaves it again, also when the transport
\* refused chunks before; the step that returns leaves uart_write_mutex free
\* and the completion claim empty; and the task holding the get_ap_info lock
\* around its sends gives it back: the two locks and the semaphore never
\* block each other.
C28_TxTerminates ==
    /\ \A s \in Senders : (tx_task[s].pc # "idle") ~> (tx_task[s].pc = "idle")
    /\ [][ \A s \in Senders :
              (tx_task[s].pc # "idle" /\ tx_task'[s].pc = "idle")
              => (uart_write_mutex' = None /\ ~tx_semaphore_active') ]_vars
    /\ (get_ap_info_mutex.holder # None) ~> (get_ap_info_mutex.holder = None)

\* tcpip is back from a send the transport refused, a transfer of another send
\* completed, and the task inside get_ap_info is going to send again
C28_Witness ==
    /\ tx_task["tcpip"].pc = "idle"
    /\ tx_task["tcpip"].result = HAL_ERROR
    /\ wire # <<>>
    /\ uart_write_mutex = None
    /\ ~tx_semaphore_active
    /\ get_ap_info_mutex.holder = Joiner
    /\ ap_info_task.pc = "loop"
    /\ ap_info_task.requests > 1

\* C29: when the ESP never answers, every task that calls get_ap_info gets
\* the lock and returns; a call sends at most 1 + AP_INFO_TRIES requests and
\* its result is an error; the lock is held exactly while a task is inside.
C29_ApInfoTerminates ==
    /\ \A s \in ApCallers :
          (s \in get_ap_info_mutex.waiting)
          ~> (s \notin get_ap_info_mutex.waiting /\ get_ap_info_mutex.holder # s)
    /\ [](ap_info_task.requests <= AP_INFO_TRIES + 1)
    /\ [](ap_info_task.pc = "done" => ap_info_task.ret # ERR_OK)
    /\ []((get_ap_info_mutex.holder = None) <=> (ap_info_task.pc = "idle"))

\* a call ends with the timeout of its last request while the other task
\* waits for the lock
C29_Witness ==
    /\ ap_info_task.pc = "done"
    /\ ap_info_task.ret = ERR_IF
    /\ ap_info_task.requests = AP_INFO_TRIES + 1
    /\ get_ap_info_mutex.waiting # {}

-----------------------------------------------------------------------------
(* Properties of the tick *)

\* what a tick does to the flags, its result and the countdown: with the link up
\* it returns the value seen_intron had and clears seen_intron and
\* seen_rx_packet; with the link down it returns false, sends nothing and
\* leaves both flags; the countdown loses one until it is 0 and stays there
TickFlagsAndCountdown ==
    /\ associated => /\ last_op'.ret = seen_intron
                     /\ ~seen_intron'
                     /\ ~seen_rx_packet'
    /\ ~associated => /\ last_op'.ret = FALSE
                      /\ last_op'.sent = NoFrame
                      /\ UNCHANGED <<seen_intron, seen_rx_packet>>
    /\ init_countdown' = IF init_countdown > 0 THEN init_countdown - 1 ELSE 0
    /\ init_countdown' >= 0

\* C30 (as claimed): a tick sends a keepalive exactly when the link is up, no
\* packet was accepted since the previous tick and the mode is an active one;
\* with the link up it returns the value seen_intron had and clears both flags,
\* with the link down it returns false, sends nothing and leaves both flags;
\* the countdown loses one per tick until it is 0 and never goes below 0.
C30_TickSincePreviousTick ==
    [][ last_op'.op = "espif_tick" =>
          /\ KeepaliveSent(last_op')
                <=> (associated /\ ~obs.pkt_since_tick
                     /\ is_running(esp_operating_mode))
          /\ TickFlagsAndCountdown ]_vars

\* C30 (amended): a tick sends a keepalive exactly when the link is up, no
\* packet was accepted since the last tick that found the link up (a tick with
\* the link down does not clear the flag) and the mode is an active one; with
\* the link up it returns the value seen_intron had and clears both flags, with
\* the link down it returns false, sends nothing and leaves both flags; the
\* countdown loses one per tick until it is 0 and never goes below 0.
C30_TickSinceLinkTick ==
    /\ [][ last_op'.op = "espif_tick" =>
             /\ KeepaliveSent(last_op')
                   <=> (associated /\ ~obs.pkt_since_link_tick
                        /\ is_running(esp_operating_mode))
             /\ TickFlagsAndCountdown ]_vars
    /\ [](init_countdown \in 0..INIT_COUNTDOWN)

\* C30 witness: a tick after the countdown ran out found the link up, a valid
\* message but no accepted packet behind it: it returned true, sent the
\* keepalive and cleared the flags
C30_Witness ==
    /\ last_op.op = "espif_tick"
    /\ last_op.ret = TRUE
    /\ KeepaliveSent(last_op)
    /\ associated
    /\ init_countdown = 0
    /\ ~seen_intron
    /\ ~seen_rx_packet

-----------------------------------------------------------------------------
(* Properties of a message of an unknown type *)

\* the poll that met the header of the unknown type
InvalidStep == uart_rx_parser'.invalid > uart_rx_parser.invalid

\* every byte of the stream went through the parser
AllFed == rx_fed = uart_rx.stream

\* the one valid message of the stream was dispatched
NextDispatched ==
    /\ Len(uart_rx_parser.dispatched) = 1
    /\ uart_rx_parser.dispatched[1].valid

\* C31 (as claimed): a message of an unknown type never stops the bridge, its
\* poll changes none of the mode, the link, the scan session, the flags and the
\* latches, and the valid message behind it is parsed and dispatched.
C31_UnknownTypeNeverFatal ==
    /\ [](~uart_rx_parser.halted)
    /\ [][ InvalidStep =>
             UNCHANGED <<esp_operating_mode, associated, scan, seen_intron,
                         seen_rx_packet, esp_was_ok, esp_detected>> ]_vars
    /\ [](AllFed => NextDispatched)

\* C31 (amended): in a build without _DEBUG a message of an unknown type does
\* not stop the bridge and the valid message behind it is dispatched; in a
\* _DEBUG build its handler stops the firmware and nothing is dispatched any
\* more. In both builds its poll leaves the mode, the link, the scan session,
\* seen_intron, seen_rx_packet and esp_was_ok alone and, like every poll that
\* read bytes, leaves esp_detected set.
C31_UnknownTypeByBuild ==
    /\ [](uart_rx_parser.halted <=> (uart_rx.plan.debug /\ uart_rx_parser.invalid >= 1))
    /\ [](uart_rx_parser.halted => uart_rx_parser.dispatched = <<>>)
    /\ [][ InvalidStep =>
             /\ UNCHANGED <<esp_operating_mode, associated, scan, seen_intron,
                            seen_rx_packet, esp_was_ok>>
             /\ esp_detected' ]_vars
    /\ []((AllFed /\ ~uart_rx.plan.debug) => NextDispatched)

\* C31 witness: in a build without _DEBUG the unknown type was met and the
\* packet over two pbufs behind it was dispatched
C31_Witness ==
    /\ ~uart_rx.plan.debug
    /\ uart_rx_parser.invalid = 1
    /\ AllFed
    /\ NextDispatched
    /\ uart_rx_parser.dispatched[1].type = PACKET_V2
    /\ Len(uart_rx_parser.dispatched[1].payload) = 2

-----------------------------------------------------------------------------
(* Properties of the intron *)

\* the step of espif_tx_msg_clientconfig_v2 that copies the intron it sent
JoinWrites ==
    /\ join_task.pc = "copy"
    /\ join_task.err = ERR_OK
    /\ tx_task[Joiner].result = ERR_OK
    /\ uart_write_mutex = Joiner
    /\ tx_intron' = join_task.new_intron

\* the step of reset_intron, called by espif_init or by an espif_reset that was
\* not refused, that writes the default bytes
ResetWrites ==
    /\ packet_task.pc.reset \in { "init_write", "reset_write" }
    /\ uart_write_mutex = Resetter
    /\ IntronTail(tx_intron') = IntronTail(DEFAULT_INTRON)

\* C32: the first two bytes of tx_message.intron are always the marker; the
\* other four change only in the copy of a join_ap whose CLIENTCONFIG was sent
\* (to the bytes that message carried) and in the reset_intron of espif_init or
\* of an accepted espif_reset (to 0, 1, 2, 3); the task that changes the
\* intron holds uart_write_mutex.
C32_IntronWriters ==
    /\ [](IntronHead(tx_intron) = INTRON_MARKER)
    /\ [](Len(tx_intron) = Len(DEFAULT_INTRON))
    /\ [][ tx_intron' # tx_intron => (JoinWrites \/ ResetWrites) ]_vars
    /\ [][ tx_intron' # tx_intron => uart_write_mutex # None ]_vars

\* C32 witness: a join_ap has committed its random bytes and the espif_reset
\* that will put the default back holds the lock while tcpip waits for it
C32_Witness ==
    /\ join_task.pc = "done"
    /\ join_task.err = ERR_OK
    /\ tx_intron = join_task.new_intron
    /\ IntronTail(tx_intron) # IntronTail(DEFAULT_INTRON)
    /\ packet_task.pc.reset = "reset_write"
    /\ uart_write_mutex = Resetter
    /\ tx_task["tcpip"].pc = "lock"

-----------------------------------------------------------------------------
(* Properties of handlers that run at the same time *)

\* a whole handler of ModeChangers ran in this step
ModeChangerStep ==
    /\ last_op'.op \in ModeChangers
    /\ UNCHANGED handler_task

\* C33: once espif::scan::start has stored the mode Scanning and while
\* scan.is_running is set, the mode stays Scanning until stop, reset,
\* reset_connection or a flash result changes it, whatever packets the polling
\* task processes meanwhile.
C33_ScanningStays ==
    [][ (esp_operating_mode = ESPIF_SCANNING_MODE /\ scan.is_running
         /\ esp_operating_mode' # ESPIF_SCANNING_MODE)
        => ModeChangerStep ]_vars

\* a step that calls netifapi_netif_set_link_up or _down
NotifyStep ==
    \/ handler_task.poll.pc = "notify" /\ handler_task'.poll.pc # "notify"
    \/ handler_task.caller.pc = "notify" /\ handler_task'.caller.pc # "notify"
    \/ packet_task.pc.reset = "notify" /\ packet_task'.pc.reset # "notify"

\* no task is inside process_packet, espif_reset or espif_reset_connection
LinkQuiet ==
    /\ handler_task.poll.pc = "idle"
    /\ handler_task.caller.pc = "idle"
    /\ packet_task.pc.reset = "idle"

\* C34: the link notifications to the IP stack alternate, starting with
\* link-up (every notification tells the stack the opposite of the one
\* before), and when no operation is in progress the last notification
\* agrees with espif_link().
C34_NotificationsFollowLink ==
    /\ [][ NotifyStep => active_esp_netif'.link_up # active_esp_netif.link_up ]_vars
    /\ [](LinkQuiet => active_esp_netif.link_up = espif_link)

-----------------------------------------------------------------------------
(* Properties of the scan session *)

\* C35: between the handlers, the mode Scanning implies that the scan session
\* is running: no sequence of scan starts and stops leaves the mode Scanning
\* with scan.is_running false.
C35_ScanningImpliesRunning ==
    esp_operating_mode = ESPIF_SCANNING_MODE => scan.is_running

-----------------------------------------------------------------------------
(* Properties of the device info *)

\* the polling task is inside the handler of a device info with a version
\* other than the required one, received in WaitInit
WrongFwInProgress ==
    /\ handler_task.poll.pc = "cas_taken"
    /\ handler_task.poll.version # REQUIRED_PROTOCOL_VERSION

\* C36: while a device info with a mismatching version is handled in WaitInit
\* no other context can see the mode NeedAp (with esp_fw_state Ok), and once
\* the handler and a join_ap that ran at the same time have finished the mode
\* is WrongFirmware.
C36_WrongFwNeverNeedAp ==
    /\ [](WrongFwInProgress => /\ esp_operating_mode # ESPIF_NEED_AP
                                /\ esp_fw_state # "Ok")
    /\ []((handler_task.poll.wrong_fw /\ handler_task.poll.pc = "idle"
           /\ join_task.pc \in { "idle", "done" })
          => esp_operating_mode = ESPIF_WRONG_FW)

-----------------------------------------------------------------------------
(* Properties of esp_link_state *)

InitLinkModes ==
    { ESPIF_WAIT_INIT, ESPIF_WRONG_FW, ESPIF_UNINITIALIZED_MODE, ESPIF_SCANNING_MODE,
      ESPIF_FLASHING_ERROR_NOT_CONNECTED, ESPIF_FLASHING_ERROR_OTHER }

\* C37: esp_link_state() is a function of the mode and of seen_intron alone:
\* Init in WaitInit, WrongFirmware, Uninitialized, Scanning and the two
\* flash-error modes, NoAp in NeedAp and ConnectingAp, and in Running Up when
\* an intron was seen since the last tick and Silent otherwise.
C37_LinkStateByModeAndSync ==
    /\ esp_operating_mode \in InitLinkModes => esp_link_state = "Init"
    /\ esp_operating_mode \in { ESPIF_NEED_AP, ESPIF_CONNECTING_AP }
           => esp_link_state = "NoAp"
    /\ esp_operating_mode = ESPIF_RUNNING_MODE
           => esp_link_state = (IF seen_intron THEN "Up" ELSE "Silent")

\* C37 (amended): esp_link_state() is a function of the mode, of the link and
\* of seen_intron: as stated outside Running; in Running it is NoAp while the
\* link is down, whatever seen_intron is, and Up or Silent by seen_intron
\* while the link is up.
C37_LinkStateByModeLinkAndSync ==
    /\ esp_operating_mode \in InitLinkModes => esp_link_state = "Init"
    /\ esp_operating_mode \in { ESPIF_NEED_AP, ESPIF_CONNECTING_AP }
           => esp_link_state = "NoAp"
    /\ (esp_operating_mode = ESPIF_RUNNING_MODE /\ ~associated)
           => esp_link_state = "NoAp"
    /\ (esp_operating_mode = ESPIF_RUNNING_MODE /\ associated)
           => esp_link_state = (IF seen_intron THEN "Up" ELSE "Silent")

\* Running with the link down and an intron seen since the last tick
C37_Witness ==
    /\ esp_operating_mode = ESPIF_RUNNING_MODE
    /\ ~associated
    /\ seen_intron
    /\ esp_link_state = "NoAp"

====
